---------------------------- MODULE Spec2Model ----------------------------
(***************************************************************************)
(* A model of GPXtoJSON/calculate_metrics.py: the grid-indexed point       *)
(* deduplicator (remove_duplicates_fast) and the size-bounded cache writer *)
(* (save_to_data_with_size_limit).                                         *)
(*                                                                         *)
(* Numbers.  The program computes in IEEE doubles; the model computes in   *)
(* fixed point with 32-bit integers:                                       *)
(*   - a latitude or longitude is an integer count of 1e-5 degrees;        *)
(*   - an angle in radians and a cosine are integers scaled by Scale=1e8;  *)
(*   - a distance is an integer count of centimetres.                      *)
(* Products that would leave 32 bits go through MulScaled, which computes  *)
(* floor(a*b/Scale) by long multiplication.  In the cache writer a         *)
(* coordinate is an integer count of 1e-6 degrees from a base point, a     *)
(* size is a count of bytes, and use_gzip, which changes only the file     *)
(* extension and the byte counts, is left off.                             *)
(***************************************************************************)
EXTENDS Integers, Sequences, FiniteSets, TLC

VARIABLES
    \* ---- remove_duplicates_fast and its callers
    points,         \* the input list of (lat, lon) points
    min_distance,   \* the threshold, metres
    unique_points,  \* the list returned for `points`
    points_again,   \* the list returned when unique_points is the input
    points_b,       \* the same points in another order
    unique_b,       \* the list returned for points_b
    dpc,            \* where the deduplication scenario stands
    \* ---- save_to_data_with_size_limit
    dataset,            \* the argument `data`: the tracks of the dataset
    optimization_level, \* the argument optimization_level
    enable_chunking,    \* the argument enable_chunking
    max_chunk_size,     \* CHUNK_CONFIG['max_chunk_size_mb'] * 1024 * 1024
    data,               \* the local `data`: the tracks after step one
    total_size,         \* the local total_size
    target_chunks,      \* the local target_chunks, 0 until it is assigned
    mode,               \* the branch taken: single, fallback or slicing
    pos,                \* the loop variable i of the loop under way
    chunks,             \* the local chunks: the filenames listed
    chunk_files,        \* the local chunk_files
    disk,               \* the data files of the cache directory
    config,             \* the file data_config.json
    file_info,          \* the value returned
    failures,           \* the number of writes that have failed
    spc,                \* where the call stands
    \* ---- parse_gpx_to_geojson, one track segment
    trkseg,         \* the local `coordinates`: the [lon, lat] of the trkpts
    line_features,  \* the coordinates of the LineStrings emitted
    gpc,            \* where the parsing of the segment stands
    \* ---- calculate_grid_area_fast and its caller
    grid_points,      \* the argument `points`, (lat, lon) in 1e-5 degrees
    grid_size_meters, \* the argument grid_size_meters
    grid_result,      \* the pair returned for grid_points
    grid_before,      \* the pair returned before the last point was added
    \* ---- the run (__main__, lines 1225-1329)
    gpx_files,          \* the files of GPX/<track type>/*.gpx, in glob order
    road_unique_points, \* the first value returned by process_road_data
    metrics,            \* the second: None or the metrics
    tracks_data,        \* the first value returned by generate_tracks_data
    bounds,             \* the second: None or the bounding box
    exit_status,        \* the exit status once the run has ended
    rpc,                \* where the run stands
    \* ---- the thread pool of process_road_data (lines 959-967)
    future_to_file,     \* the futures in submission order, with their files
    gathered_points     \* the local all_points of process_road_data

dedupVars == <<points, min_distance, unique_points, points_again,
               points_b, unique_b, dpc>>

saveVars == <<dataset, optimization_level, enable_chunking, max_chunk_size,
              data, total_size, target_chunks, mode, pos, chunks,
              chunk_files, disk, config, file_info, failures, spc>>

geoVars == <<trkseg, line_features, gpc>>

\* The variables of the steps before the cache writer.
gridVars == <<grid_points, grid_size_meters, grid_result, grid_before>>

runVars == <<gpx_files, road_unique_points, metrics, tracks_data, bounds,
             exit_status, rpc>>

poolVars == <<future_to_file, gathered_points>>

pipelineVars == <<geoVars, gridVars, runVars, poolVars>>

vars == <<dedupVars, saveVars, pipelineVars>>

----------------------------------------------------------------------------
(* Integer helpers                                                          *)

Abs(x) == IF x < 0 THEN -x ELSE x

Min(a, b) == IF a <= b THEN a ELSE b

Max(a, b) == IF a >= b THEN a ELSE b

Scale == 10^8

\* floor(a*b/Scale) for 0 <= a, b < 2^31 whose quotient is below 2^31, by
\* long multiplication in base 10^4 so that no intermediate leaves 32 bits.
MulScaled(a, b) ==
    LET H  == 10^4
        a1 == a \div H
        a0 == a % H
        b1 == b \div H
        b0 == b % H
        m1 == a1 * b0
        m2 == a0 * b1
        m3 == (a0 * b0) \div H
    IN  a1 * b1 + (m1 \div H) + (m2 \div H) + (((m1 % H) + (m2 % H) + m3) \div H)

\* floor(sqrt(n))
RECURSIVE Isqrt(_)
Isqrt(n) ==
    IF n < 2 THEN n
    ELSE LET s == 2 * Isqrt(n \div 4)
         IN  IF (s + 1) * (s + 1) <= n THEN s + 1 ELSE s

\* Python's int(x) of the quotient num/den, den > 0: truncation toward zero.
TruncDiv(num, den) == IF num >= 0 THEN num \div den ELSE -((-num) \div den)

----------------------------------------------------------------------------
(* math.radians and math.cos                                                *)

\* math.radians of a non-negative angle given in 1e-5 degrees, scaled by
\* Scale: deg * pi / 180, with pi / 180 = 0.01745329252.
radians(deg_e5) == MulScaled(deg_e5, 1745329252)

\* math.cos(math.radians(lat)), scaled by Scale, for a latitude in 1e-5
\* degrees between -90 and 90 degrees: the cosine series to x^16 in Horner
\* form, 1 - x^2/(1*2) * (1 - x^2/(3*4) * (1 - x^2/(5*6) * ...)).
cos_radians(lat) ==
    LET x  == radians(Abs(lat))
        x2 == MulScaled(x, x)
        c8 == Scale - (MulScaled(x2, Scale) \div (15 * 16))
        c7 == Scale - (MulScaled(x2, c8) \div (13 * 14))
        c6 == Scale - (MulScaled(x2, c7) \div (11 * 12))
        c5 == Scale - (MulScaled(x2, c6) \div (9 * 10))
        c4 == Scale - (MulScaled(x2, c5) \div (7 * 8))
        c3 == Scale - (MulScaled(x2, c4) \div (5 * 6))
        c2 == Scale - (MulScaled(x2, c3) \div (3 * 4))
    IN  Scale - (MulScaled(x2, c2) \div (1 * 2))

----------------------------------------------------------------------------
(* haversine (lines 58-75)                                                  *)

EarthRadiusM == 6371000

\* The longest north or east component the distance is computed from, in
\* centimetres; a longer one counts as this long, so that every distance up
\* to HavCap is exact and every longer one is reported as at least HavCap.
HavCap == 300 * 100

\* The great-circle distance of two points, centimetres.  For the angles the
\* model meets, sin(x/2)^2 is (x/2)^2 and atan2(sqrt(a), sqrt(1-a)) is
\* sqrt(a), so that R*c is R*sqrt(dlat^2 + cos(lat1)*cos(lat2)*dlon^2);
\* sin(dlon/2)^2 has period 360 degrees in dlon, hence the wrapped dlon.
haversine(lat1, lon1, lat2, lon2) ==
    LET dlat  == radians(Abs(lat2 - lat1))
        dl    == Abs(lon2 - lon1)
        dlon  == radians(Min(dl, 360 * 10^5 - dl))
        north == Min(MulScaled(dlat, EarthRadiusM * 100), HavCap)
        east  == Min(MulScaled(dlon, EarthRadiusM * 100), HavCap)
        cc    == MulScaled(cos_radians(lat1), cos_radians(lat2))
    IN  Isqrt(north * north + MulScaled(east * east, cc))

----------------------------------------------------------------------------
(* The inputs of the deduplicator                                           *)

\* The longest input list.
MaxPoints == 3

\* The thresholds tried, metres; 50 is the default and the one every caller
\* passes.
MinDistances == {25, 50}

\* The points an input list is drawn from, as (lat, lon) in 1e-5 degrees:
\* seven points within 100 m of 45.87 S, 170.5004 E.
Lattice ==
    { <<-4587000 + o[1], 17050040 + o[2]>> :
        o \in { <<0, 0>>, <<20, 0>>, <<44, 0>>, <<64, 0>>,
                <<0, 60>>, <<22, 8>>, <<44, -40>> } }

\* haversine over the lattice, computed once.
haversine_tab ==
    [p \in Lattice, q \in Lattice |-> haversine(p[1], p[2], q[1], q[2])]

\* Whether two points are within d metres of each other (line 882).
Within(p, q, d) == haversine_tab[p, q] <= d * 100

----------------------------------------------------------------------------
(* remove_duplicates_fast (lines 854-902)                                   *)

MetersPerDegree == 111000

\* grid_size = min_distance * 1.5 and a coordinate in 1e-5 degrees give
\* deg * 111000 / grid_size = c * (111000 * 2) / (3 * d * 10^5)
\*                          = c * 37 / (50 * d).
GridNum == (MetersPerDegree * 2) \div 6000

GridDen(d) == (3 * d * 10^5) \div 6000

\* Lines 871-872: the grid cell of a point; the longitude is scaled by the
\* cosine of the point's own latitude, and int() truncates toward zero.
grid_key(p, d) ==
    LET lat == p[1]
        lon == p[2]
        grid_lat == TruncDiv(lat * GridNum, GridDen(d))
        east == MulScaled(Abs(lon) * GridNum, cos_radians(lat))
        grid_lon == IF lon >= 0 THEN east \div GridDen(d)
                    ELSE -(east \div GridDen(d))
    IN  <<grid_lat, grid_lon>>

\* grid_key over the thresholds and the lattice, computed once.
grid_tab == [d \in MinDistances, p \in Lattice |-> grid_key(p, d)]

\* Lines 876-878: the offsets of the cells scanned around a point's cell.
neighbour_offsets == {-1, 0, 1}

\* A scan that takes any retained point of the 3x3 cells for a duplicate,
\* without the haversine test of line 882.
is_duplicate_by_cell(p, key, grid_dict, d) ==
    \E dlat \in neighbour_offsets, dlon \in neighbour_offsets :
        LET check_grid == <<key[1] + dlat, key[2] + dlon>>
        IN  /\ check_grid \in DOMAIN grid_dict
            /\ grid_dict[check_grid] # <<>>

\* Lines 875-888: whether a retained point indexed in the 3x3 cells around
\* `key` is within the threshold of p.
is_duplicate(p, key, grid_dict, d) ==
    \E dlat \in neighbour_offsets, dlon \in neighbour_offsets :
        LET check_grid == <<key[1] + dlat, key[2] + dlon>>
        IN  /\ check_grid \in DOMAIN grid_dict
            /\ \E k \in 1..Len(grid_dict[check_grid]) :
                   Within(p, grid_dict[check_grid][k], d)

\* A loop body that indexes every point, retained or not, and overwrites the
\* cell's list: what lines 893-896 would do outside the `if`, with `=`.
dedup_step_index_all(st, p, d) ==
    LET key == grid_tab[d, p]
        dup == is_duplicate(p, key, st.grid_dict, d)
        gd  == [k \in DOMAIN st.grid_dict \cup {key} |->
                   IF k = key THEN <<p>> ELSE st.grid_dict[k]]
    IN  [grid_dict |-> gd,
         unique_points |-> IF dup THEN st.unique_points
                           ELSE Append(st.unique_points, p)]

\* Lines 869-896: one iteration of the loop, from the state st of
\* (grid_dict, unique_points) before it to the state after it.
dedup_step(st, p, d) ==
    LET key == grid_tab[d, p]
    IN  IF is_duplicate(p, key, st.grid_dict, d)
        THEN st
        ELSE [grid_dict |->
                 [k \in DOMAIN st.grid_dict \cup {key} |->
                     IF k = key
                     THEN (IF key \in DOMAIN st.grid_dict
                           THEN Append(st.grid_dict[key], p) ELSE <<p>>)
                     ELSE st.grid_dict[k]],
              unique_points |-> Append(st.unique_points, p)]

RECURSIVE dedup_loop(_, _, _, _)
dedup_loop(pts, i, st, d) ==
    IF i > Len(pts) THEN st
    ELSE dedup_loop(pts, i + 1, dedup_step(st, pts[i], d), d)

\* Lines 854-902.  `if not points: return []` is the empty case of the loop.
remove_duplicates_fast(pts, d) ==
    IF pts = <<>> THEN <<>>
    ELSE dedup_loop(pts, 1, [grid_dict |-> <<>>, unique_points |-> <<>>],
                    d).unique_points

----------------------------------------------------------------------------
(* The two halves of the program at rest                                    *)

\* The manifest of a data_config.json that holds none.
NoManifest ==
    [data_type |-> "", chunks |-> <<>>, total_chunks |-> 0,
     single_file |-> ""]

\* No deduplication under way.
DedupIdle ==
    /\ points = <<>>
    /\ min_distance = 50
    /\ unique_points = <<>>
    /\ points_again = <<>>
    /\ points_b = <<>>
    /\ unique_b = <<>>
    /\ dpc = "idle"

\* No track segment being parsed.
GeoIdle ==
    /\ trkseg = <<>>
    /\ line_features = <<>>
    /\ gpc = "idle"

\* No area being computed.
GridIdle ==
    /\ grid_points = <<>>
    /\ grid_size_meters = 50
    /\ grid_result = <<0, 0>>
    /\ grid_before = <<0, 0>>

\* No run under way.
RunIdle ==
    /\ gpx_files = <<>>
    /\ road_unique_points = <<>>
    /\ metrics = <<>>
    /\ tracks_data = <<>>
    /\ bounds = <<>>
    /\ exit_status = <<>>
    /\ rpc = "idle"

\* No pool at work.
PoolIdle ==
    /\ future_to_file = <<>>
    /\ gathered_points = <<>>

PipelineIdle == GeoIdle /\ GridIdle /\ RunIdle /\ PoolIdle

\* No save under way, nothing in the cache directory.
SaveIdle ==
    /\ dataset = <<>>
    /\ optimization_level = "medium"
    /\ enable_chunking = TRUE
    /\ max_chunk_size = 512 * 1024
    /\ data = <<>>
    /\ total_size = 0
    /\ target_chunks = 0
    /\ mode = "undecided"
    /\ pos = 0
    /\ chunks = <<>>
    /\ chunk_files = <<>>
    /\ disk = <<>>
    /\ config = [written |-> "no", data |-> NoManifest]
    /\ file_info = <<>>
    /\ failures = 0
    /\ spc = "idle"

----------------------------------------------------------------------------
(* The deduplication scenario: a caller builds a list of points, calls      *)
(* remove_duplicates_fast on it, and then either calls it again on the      *)
(* result or calls it on the same points in another order (the same files   *)
(* globbed in another order, lines 935-967).                                *)

\* The permutations of 1..n.
Perms(n) == {f \in [1..n -> 1..n] : \A i, j \in 1..n : f[i] = f[j] => i = j}

\* The list pts reordered: position i of the result holds pts[f[i]].
Reorder(pts, f) == [i \in 1..Len(pts) |-> pts[f[i]]]

InitDedup ==
    /\ points = <<>>
    /\ min_distance \in MinDistances
    /\ unique_points = <<>>
    /\ points_again = <<>>
    /\ points_b = <<>>
    /\ unique_b = <<>>
    /\ dpc = "input"
    /\ SaveIdle
    /\ PipelineIdle

\* all_points.extend(points), line 967, one point at a time.
AddPoint(p) ==
    /\ dpc = "input"
    /\ Len(points) < MaxPoints
    /\ points' = Append(points, p)
    /\ UNCHANGED <<min_distance, unique_points, points_again, points_b,
                   unique_b, dpc>>
    /\ UNCHANGED <<saveVars, pipelineVars>>

\* unique_points = remove_duplicates_fast(all_points), line 977.
CallDedup ==
    /\ dpc = "input"
    /\ unique_points' = remove_duplicates_fast(points, min_distance)
    /\ dpc' = "called"
    /\ UNCHANGED <<points, min_distance, points_again, points_b, unique_b>>
    /\ UNCHANGED <<saveVars, pipelineVars>>

\* remove_duplicates_fast applied to its own result.
CallAgain ==
    /\ dpc = "called"
    /\ points_again' = remove_duplicates_fast(unique_points, min_distance)
    /\ dpc' = "again"
    /\ UNCHANGED <<points, min_distance, unique_points, points_b, unique_b>>
    /\ UNCHANGED <<saveVars, pipelineVars>>

\* remove_duplicates_fast applied to the same points in the order f.
CallReordered(f) ==
    /\ dpc = "called"
    /\ points_b' = Reorder(points, f)
    /\ unique_b' = remove_duplicates_fast(Reorder(points, f), min_distance)
    /\ dpc' = "reordered"
    /\ UNCHANGED <<points, min_distance, unique_points, points_again>>
    /\ UNCHANGED <<saveVars, pipelineVars>>

NextDedup ==
    \/ \E p \in Lattice : AddPoint(p)
    \/ CallDedup
    \/ CallAgain
    \/ \E f \in Perms(Len(points)) : CallReordered(f)

SpecDedup == InitDedup /\ [][NextDedup]_vars

----------------------------------------------------------------------------
(* Properties of remove_duplicates_fast                                     *)

\* The set of the elements of a list.
Range(seq) == {seq[i] : i \in 1..Len(seq)}

\* The elements of seq at the positions of the set idx, in order.
RECURSIVE SelectBetween(_, _, _, _)
SelectBetween(seq, idx, lo, hi) ==
    IF lo > hi THEN <<>>
    ELSE IF lo = hi THEN (IF lo \in idx THEN <<seq[lo]>> ELSE <<>>)
    ELSE SelectBetween(seq, idx, lo, (lo + hi) \div 2)
         \o SelectBetween(seq, idx, ((lo + hi) \div 2) + 1, hi)

SelectAt(seq, idx, i) == SelectBetween(seq, idx, i, Len(seq))

\* Two cells are the same or adjacent: each coordinate differs by at most 1.
CellsAdjacent(k1, k2) == Abs(k1[1] - k2[1]) <= 1 /\ Abs(k1[2] - k2[2]) <= 1

\* Every pair of points of pts within the threshold falls in the same or an
\* adjacent grid cell.
ClosePairsAdjacent(pts, d) ==
    \A p, q \in Range(pts) :
        Within(p, q, d) => CellsAdjacent(grid_tab[d, p], grid_tab[d, q])

\* The position of the first occurrence of p in pts.
FirstIndex(pts, p) == CHOOSE i \in 1..Len(pts) :
                          pts[i] = p /\ \A j \in 1..(i - 1) : pts[j] # p

\* Two orderings of the same points agree on which point of every pair of
\* distinct points within the threshold is seen first.
SameOrderOfClosePairs(pa, pb, d) ==
    \A p, q \in Range(pa) :
        (p # q /\ Within(p, q, d)) =>
            ((FirstIndex(pa, p) < FirstIndex(pa, q))
                <=> (FirstIndex(pb, p) < FirstIndex(pb, q)))

\* C1: once remove_duplicates_fast has returned, no two retained points (at
\* two positions of the output) are within min_distance of each other.
C1_NoRetainedPairWithinThreshold ==
    dpc # "input" =>
        \A i, j \in 1..Len(unique_points) :
            i < j => ~Within(unique_points[i], unique_points[j], min_distance)

\* C2: the output is a subsequence of the input, in input order; every input
\* position left out has a retained position before it whose point is within
\* min_distance; an empty input gives an empty output.
C2_SubsequenceAndDroppedCovered ==
    dpc # "input" =>
        /\ (points = <<>> => unique_points = <<>>)
        /\ \E kept \in SUBSET (1..Len(points)) :
               /\ unique_points = SelectAt(points, kept, 1)
               /\ \A i \in (1..Len(points)) \ kept :
                      \E j \in kept :
                          j < i /\ Within(points[i], points[j], min_distance)

\* C2 witness: a call that retained two points and dropped a third.
C2_Witness ==
    /\ dpc = "called"
    /\ Len(points) = 3
    /\ Len(unique_points) = 2

\* C3: remove_duplicates_fast applied to its own output returns that output.
C3_Idempotent ==
    dpc = "again" => points_again = unique_points

\* C3 witness: the second call ran on an output of two points from which the
\* first call had dropped one.
C3_Witness ==
    /\ dpc = "again"
    /\ Len(points) = 3
    /\ Len(unique_points) = 2
    /\ points_again = unique_points

\* C4 as stated: for two orderings of the same points in which every pair
\* within the threshold falls in the same or an adjacent cell, the retained
\* sets are equal.
C4_OrderIndependent ==
    (dpc = "reordered" /\ ClosePairsAdjacent(points, min_distance)) =>
        Range(unique_points) = Range(unique_b)

\* C4 amended: the retained sets are equal when, besides, the two orderings
\* agree on which point of every pair within the threshold comes first.
C4_OrderIndependentGivenPairOrder ==
    (/\ dpc = "reordered"
     /\ ClosePairsAdjacent(points, min_distance)
     /\ SameOrderOfClosePairs(points, points_b, min_distance)) =>
        Range(unique_points) = Range(unique_b)

\* C4 witness: a different ordering that keeps the order of the close pairs,
\* of an input from which a point is dropped.
C4_Witness ==
    /\ dpc = "reordered"
    /\ points_b # points
    /\ ClosePairsAdjacent(points, min_distance)
    /\ SameOrderOfClosePairs(points, points_b, min_distance)
    /\ Len(unique_points) = 2
    /\ Len(points) = 3
    /\ Range(unique_points) = Range(unique_b)

----------------------------------------------------------------------------
(* Track datasets                                                           *)
(*                                                                          *)
(* A dataset is the list of its track types in the order of the `tracks`    *)
(* dict; a track is [type, points, lines], the two lists being the features *)
(* of its two layers.  A feature is [kind, coords, full]: the coordinates   *)
(* of a Point are one <<lon, lat>>, those of a LineString a list of them;   *)
(* `full` tells whether the feature still has the "type", "geometry.type"   *)
(* and "properties" members it is generated with (lines 1050-1100).         *)
(* A coordinate is an integer count of 1e-6 degrees from a base point.      *)

\* The keys of GPX_TYPES (lines 51-56), in dict order.
GPX_TYPES == <<"road", "train", "plane", "other">>

\* OPTIMIZATION_LEVELS (lines 36-41), the tolerances in 1e-6 degrees.
OPTIMIZATION_LEVELS ==
    [none   |-> [coord_precision |-> 6, duplicate_tolerance |-> 0,
                 simplify_tolerance |-> 0],
     low    |-> [coord_precision |-> 6, duplicate_tolerance |-> 1,
                 simplify_tolerance |-> 50],
     medium |-> [coord_precision |-> 5, duplicate_tolerance |-> 10,
                 simplify_tolerance |-> 100],
     high   |-> [coord_precision |-> 4, duplicate_tolerance |-> 100,
                 simplify_tolerance |-> 500]]

\* OPTIMIZATION_LEVELS.get(level, OPTIMIZATION_LEVELS['medium']), line 162.
level_config(level) ==
    IF level \in DOMAIN OPTIMIZATION_LEVELS THEN OPTIMIZATION_LEVELS[level]
    ELSE OPTIMIZATION_LEVELS["medium"]

\* round(x, precision) of a coordinate in 1e-6 degrees: to the nearest
\* multiple of 10^(6 - precision), a tie to the even multiple.
round(x, precision) ==
    LET step == 10^(6 - precision)
        q    == Abs(x) \div step
        r    == Abs(x) % step
        n    == IF 2 * r > step \/ (2 * r = step /\ q % 2 = 1)
                THEN q + 1 ELSE q
    IN  IF x < 0 THEN -(n * step) ELSE n * step

\* Lines 77-94.
optimize_coordinates(coordinates, precision) ==
    [k \in 1..Len(coordinates) |->
        <<round(coordinates[k][1], precision),
          round(coordinates[k][2], precision)>>]

\* The square of the planar distance of two coordinates.
Dist2(a, b) == (a[1] - b[1]) * (a[1] - b[1]) + (a[2] - b[2]) * (a[2] - b[2])

\* Lines 101-110: the loop from position k on, `filtered` so far.
RECURSIVE filter_from(_, _, _, _)
filter_from(coordinates, k, filtered, tolerance) ==
    IF k > Len(coordinates) THEN filtered
    ELSE filter_from(coordinates, k + 1,
             IF Dist2(coordinates[k], filtered[Len(filtered)])
                    > tolerance * tolerance
             THEN Append(filtered, coordinates[k]) ELSE filtered,
             tolerance)

\* Lines 96-112.
remove_duplicate_points(coordinates, tolerance) ==
    IF Len(coordinates) <= 1 THEN coordinates
    ELSE filter_from(coordinates, 2, <<coordinates[1]>>, tolerance)

\* The square of the length of the chord from the first to the last point.
chord2(pts) == Dist2(pts[1], pts[Len(pts)])

\* Lines 119-131: point_line_distance(pts[k], pts[1], pts[-1]), squared, and
\* times chord2(pts) when the chord has a length.
point_line_distance2(pts, k) ==
    LET x0 == pts[k][1]
        y0 == pts[k][2]
        x1 == pts[1][1]
        y1 == pts[1][2]
        x2 == pts[Len(pts)][1]
        y2 == pts[Len(pts)][2]
        cross == (y2 - y1) * x0 - (x2 - x1) * y0 + x2 * y1 - y2 * x1
    IN  IF chord2(pts) = 0 THEN Dist2(pts[k], pts[1]) ELSE cross * cross

\* Lines 137-144: the first interior position at the greatest distance from
\* the chord, 0 when every interior point is on it.
max_index(pts) ==
    LET inner == 2..(Len(pts) - 1)
        far   == {k \in inner :
                     /\ point_line_distance2(pts, k) > 0
                     /\ \A j \in inner : point_line_distance2(pts, j)
                                            <= point_line_distance2(pts, k)}
    IN  IF far = {} THEN 0
        ELSE CHOOSE k \in far : \A j \in far : k <= j

\* Lines 133-151.
RECURSIVE douglas_peucker(_, _)
douglas_peucker(pts, tolerance) ==
    IF Len(pts) <= 2 THEN pts
    ELSE LET m == max_index(pts)
             scale2 == IF chord2(pts) = 0 THEN 1 ELSE chord2(pts)
         IN  IF m > 0 /\ point_line_distance2(pts, m)
                            > tolerance * tolerance * scale2
             THEN LET left  == douglas_peucker(SubSeq(pts, 1, m), tolerance)
                      right == douglas_peucker(SubSeq(pts, m, Len(pts)),
                                               tolerance)
                  IN  SubSeq(left, 1, Len(left) - 1) \o right
             ELSE <<pts[1], pts[Len(pts)]>>

\* Lines 114-153.
simplify_line_douglas_peucker(coordinates, tolerance) ==
    IF Len(coordinates) <= 2 THEN coordinates
    ELSE douglas_peucker(coordinates, tolerance)

\* Lines 187-189 and 243-245: the feature rebuilt around its coordinates
\* alone; no generated feature has a timestamp, start_time or end_time.
optimized_feature(feature, coords) ==
    [kind |-> feature.kind, coords |-> coords, full |-> FALSE]

\* Lines 200-214: the points of pts[lo..hi] whose coordinates no earlier
\* point of pts[lo..hi] has, in order; by halves, a point of the second half
\* being kept when the first half has not seen its coordinates.
RECURSIVE filtered_between(_, _, _)
filtered_between(pts, lo, hi) ==
    IF lo > hi THEN <<>>
    ELSE IF lo = hi THEN <<pts[lo]>>
    ELSE LET left  == filtered_between(pts, lo, (lo + hi) \div 2)
             right == filtered_between(pts, ((lo + hi) \div 2) + 1, hi)
             seen_coords == {left[j].coords : j \in 1..Len(left)}
         IN  left \o SelectSeq(right, LAMBDA pt : pt.coords \notin seen_coords)

\* Lines 171-218: the point layer.
optimize_points(features, cfg) ==
    LET optimized_points ==
            [k \in 1..Len(features) |->
                optimized_feature(features[k],
                    <<round(features[k].coords[1], cfg.coord_precision),
                      round(features[k].coords[2], cfg.coord_precision)>>)]
    IN  IF cfg.duplicate_tolerance > 0
        THEN filtered_between(optimized_points, 1, Len(optimized_points))
        ELSE optimized_points

\* Lines 230-240: the coordinates of one line.
optimize_line_coords(coords, cfg) ==
    LET rounded == optimize_coordinates(coords, cfg.coord_precision)
        deduped == IF cfg.duplicate_tolerance > 0
                   THEN remove_duplicate_points(rounded,
                                                cfg.duplicate_tolerance)
                   ELSE rounded
    IN  IF cfg.simplify_tolerance > 0 /\ Len(deduped) > 2
        THEN simplify_line_douglas_peucker(deduped,
                                           cfg.simplify_tolerance)
        ELSE deduped

\* Lines 221-259: the line layer; a line left with one coordinate is dropped.
optimize_lines(features, cfg) ==
    LET optimized_lines ==
            [k \in 1..Len(features) |->
                optimized_feature(features[k],
                    optimize_line_coords(features[k].coords, cfg))]
        kept == {k \in 1..Len(features) :
                    /\ Len(features[k].coords) > 1
                    /\ Len(optimized_lines[k].coords) >= 2}
    IN  SelectAt(optimized_lines, kept, 1)

\* Lines 155-261.
optimize_track_data(track_data, level) ==
    IF level = "none" THEN track_data
    ELSE [type   |-> track_data.type,
          points |-> optimize_points(track_data.points,
                                     level_config(level)),
          lines  |-> optimize_lines(track_data.lines,
                                    level_config(level))]

\* Lines 305-352: the dataset after step one.
optimized_data(tracks, level) ==
    IF level = "none" THEN tracks
    ELSE [k \in 1..Len(tracks) |->
             optimize_track_data(tracks[k], level)]

----------------------------------------------------------------------------
(* get_data_size and the documents written                                  *)
(*                                                                          *)
(* A document is [tracks, chunk_info]; chunk_info is the empty list in the  *)
(* dataset and a list of one record in a chunk.  An optional value (None or *)
(* a value) is a list of no or one element.  A file holds a list of no or   *)
(* one document: none when a write was cut short.                           *)

\* CHUNK_CONFIG (lines 44-48).
min_chunks == 2

max_chunks == 100

\* The length of the compact JSON of a feature, to the nearest ten bytes:
\* 30 for {"geometry":{"coordinates":...}}, 70 more for the "type",
\* "geometry.type" and "properties" members, 20 for each coordinate pair.
feature_size(feature) ==
    30 + (IF feature.full THEN 70 ELSE 0)
       + 20 * (IF feature.kind = "Point" THEN 1 ELSE Len(feature.coords))

\* The size of the features at the positions lo..hi, by halves so that a
\* long list is summed at a small depth.
RECURSIVE size_between(_, _, _)
size_between(features, lo, hi) ==
    IF lo > hi THEN 0
    ELSE IF lo = hi THEN feature_size(features[lo])
    ELSE size_between(features, lo, (lo + hi) \div 2)
         + size_between(features, ((lo + hi) \div 2) + 1, hi)

features_size(features, k) == size_between(features, k, Len(features))

\* A track: 100 bytes for its key, colour, display type, file list and
\* counts, and its two layers.
track_size(track) ==
    100 + features_size(track.points, 1) + features_size(track.lines, 1)

RECURSIVE tracks_size(_, _)
tracks_size(tracks, k) ==
    IF k > Len(tracks) THEN 0
    ELSE track_size(tracks[k]) + tracks_size(tracks, k + 1)

\* Lines 263-271: 400 bytes for the metrics, bounds, generated_at and
\* version members, 60 for a chunk_info member, and the tracks.
get_data_size(doc) ==
    400 + (IF doc.chunk_info = <<>> THEN 0 ELSE 60) + tracks_size(doc.tracks, 1)

\* The document of a whole dataset.
dataset_doc(tracks) == [tracks |-> tracks, chunk_info |-> <<>>]

\* Lines 538 and 375, for base_filename "tracks_data" (line 1276) and
\* file_ext ".json".
chunk_filename(n) ==
    "tracks_data_chunk_"
        \o (IF n < 10 THEN "00" ELSE IF n < 100 THEN "0" ELSE "")
        \o ToString(n) \o ".json"

single_filename == "tracks_data.json"

\* A decision that chunks only a dataset larger than the budget.
should_chunk_by_size(enable, size, budget, tracks) ==
    enable /\ size > budget

\* Lines 367-369.
should_chunk(enable, size, budget, tracks) ==
    enable /\ (size > budget \/ Len(tracks) >= min_chunks)

\* A target of the least number of chunks, whatever the size.
target_chunks_least(size, budget) == min_chunks

\* A target that rounds total_size / max_chunk_size up to a whole number.
target_chunks_ceil(size, budget) ==
    Max(min_chunks, Min(max_chunks, (size + budget - 1) \div budget))

\* Lines 409-411: int(total_size / max_chunk_size) + 1, clamped.
target_chunks_for(size, budget) ==
    Max(min_chunks, Min(max_chunks, (size \div budget) + 1))

\* Lines 423-429 and 433-439: the features of one layer with their meta.
with_meta(features, track_type, feature_type) ==
    [k \in 1..Len(features) |->
        [data |-> features[k], track_type |-> track_type,
         feature_type |-> feature_type]]

\* Lines 417-439: all_features, from track k on.
RECURSIVE all_features(_, _)
all_features(tracks, k) ==
    IF k > Len(tracks) THEN <<>>
    ELSE with_meta(tracks[k].points, tracks[k].type, "points")
         \o with_meta(tracks[k].lines, tracks[k].type, "lines")
         \o all_features(tracks, k + 1)

\* Lines 494-523: one feature added to chunk_tracks.
add_feature(chunk_tracks, meta) ==
    LET at  == {k \in 1..Len(chunk_tracks) :
                   chunk_tracks[k].type = meta.track_type}
        cur == IF at = {}
               THEN Append(chunk_tracks,
                           [type |-> meta.track_type, points |-> <<>>,
                            lines |-> <<>>])
               ELSE chunk_tracks
        n   == IF at = {} THEN Len(cur) ELSE CHOOSE k \in at : TRUE
    IN  [cur EXCEPT ![n] =
            IF meta.feature_type = "points"
            THEN [@ EXCEPT !.points = Append(@, meta.data)]
            ELSE [@ EXCEPT !.lines = Append(@, meta.data)]]

\* A regrouping that loses the line features of a chunk.
RECURSIVE regroup_points_only(_, _, _)
regroup_points_only(chunk_features, k, chunk_tracks) ==
    IF k > Len(chunk_features) THEN chunk_tracks
    ELSE regroup_points_only(chunk_features, k + 1,
             IF chunk_features[k].feature_type = "lines" THEN chunk_tracks
             ELSE add_feature(chunk_tracks, chunk_features[k]))

\* The features of the track `track` added to chunk_tracks, as add_feature
\* adds them one at a time.
add_track(chunk_tracks, track) ==
    LET at  == {k \in 1..Len(chunk_tracks) :
                   chunk_tracks[k].type = track.type}
    IN  IF at = {} THEN Append(chunk_tracks, track)
        ELSE [chunk_tracks EXCEPT ![CHOOSE k \in at : TRUE] =
                 [@ EXCEPT !.points = @ \o track.points,
                           !.lines  = @ \o track.lines]]

\* The tracks of `more`, from position k on, added to chunk_tracks.
RECURSIVE add_tracks(_, _, _)
add_tracks(chunk_tracks, more, k) ==
    IF k > Len(more) THEN chunk_tracks
    ELSE add_tracks(add_track(chunk_tracks, more[k]), more, k + 1)

\* Lines 492-523 for the features at the positions lo..hi: the loop run on
\* each half and the second half's tracks added to the first's, which is
\* what adding the features one after the other gives.
RECURSIVE regroup_between(_, _, _)
regroup_between(chunk_features, lo, hi) ==
    IF lo > hi THEN <<>>
    ELSE IF lo = hi THEN add_feature(<<>>, chunk_features[lo])
    ELSE add_tracks(regroup_between(chunk_features, lo, (lo + hi) \div 2),
                    regroup_between(chunk_features,
                                    ((lo + hi) \div 2) + 1, hi),
                    1)

\* Lines 492-523: chunk_tracks of the features from position k on.
regroup(chunk_features, k, chunk_tracks) ==
    add_tracks(chunk_tracks,
               regroup_between(chunk_features, k, Len(chunk_features)), 1)

\* list(chunk_tracks.keys()).
track_types(chunk_tracks) ==
    [k \in 1..Len(chunk_tracks) |-> chunk_tracks[k].type]

\* Lines 452-463 and 525-536: a chunk document, total_chunks unset.
chunk_data(chunk_tracks, chunk_id) ==
    [tracks |-> chunk_tracks,
     chunk_info |-> <<[chunk_id |-> chunk_id, total_chunks |-> <<>>,
                       track_types |-> track_types(chunk_tracks)]>>]

\* seq[i : i + n] of Python, i counted from 0.
Slice(seq, i, n) == SubSeq(seq, i + 1, Min(i + n, Len(seq)))

\* Line 447 and line 485.
per_chunk(count, target) == Max(1, count \div target)

\* Lines 546-547: sum of the counts of one layer over chunk_tracks.
RECURSIVE layer_count(_, _, _)
layer_count(chunk_tracks, layer, k) ==
    IF k > Len(chunk_tracks) THEN 0
    ELSE (IF layer = "points" THEN Len(chunk_tracks[k].points)
          ELSE Len(chunk_tracks[k].lines))
         + layer_count(chunk_tracks, layer, k + 1)

----------------------------------------------------------------------------
(* The inputs of save_to_data_with_size_limit                               *)

\* The most writes that fail in one call.
MaxFailures == 1

PointFeature(lon, lat) ==
    [kind |-> "Point", coords |-> <<lon, lat>>, full |-> TRUE]

LineFeature(coords) == [kind |-> "LineString", coords |-> coords, full |-> TRUE]

\* The point features a track is made of: more than 50 m apart, as the
\* points that come out of remove_duplicates_fast are.
SamplePoints ==
    << PointFeature(12, 8), PointFeature(612, 11), PointFeature(14, 708) >>

\* The line features a track is made of: one of four coordinates of which
\* medium keeps three, and one whose two ends medium rounds to the same
\* coordinate.
SampleLines ==
    << LineFeature(<< <<0, 0>>, <<60, 150>>, <<120, 148>>, <<180, 0>> >>),
       LineFeature(<< <<0, 0>>, <<4, 3>> >>) >>

\* The (number of points, number of lines) a track type may have.
TrackShapes == { <<0, 0>>, <<2, 0>>, <<1, 2>> }

\* The datasets: the first n track types of GPX_TYPES, each of one shape.
Datasets ==
    UNION { { [k \in 1..n |->
                 [type   |-> GPX_TYPES[k],
                  points |-> SubSeq(SamplePoints, 1, shape[k][1]),
                  lines  |-> SubSeq(SampleLines, 1, shape[k][2])]] :
              shape \in [1..n -> TrackShapes] } :
            n \in 1..Len(GPX_TYPES) }

\* The levels tried: no optimization, and the default.
OptimizationLevels == {"none", "medium"}

\* The byte budgets tried: one byte; 740 bytes, which every chunk of one
\* feature fits and of which some datasets are twice the size; and a budget
\* larger than every dataset.
Budgets == {1, 740, 10^6}

----------------------------------------------------------------------------
(* save_to_data_with_size_limit (lines 295-599), one step for each file    *)
(* operation; a write that fails leaves the file as it was or cut short.   *)

\* The function f with f[k] = v.
Put(f, k, v) == [x \in DOMAIN f \cup {k} |-> IF x = k THEN v ELSE f[x]]

\* A data file after a failed write.
AfterFailedWrite(name, cut) == IF cut THEN Put(disk, name, <<>>) ELSE disk

InitSave ==
    /\ DedupIdle
    /\ PipelineIdle
    /\ dataset \in Datasets
    /\ optimization_level \in OptimizationLevels
    /\ enable_chunking \in BOOLEAN
    /\ max_chunk_size \in Budgets
    /\ data = dataset
    /\ total_size = 0
    /\ target_chunks = 0
    /\ mode = "undecided"
    /\ pos = 0
    /\ chunks = <<>>
    /\ chunk_files = <<>>
    /\ disk = <<>>
    /\ config = [written |-> "no", data |-> NoManifest]
    /\ file_info = <<>>
    /\ failures = 0
    /\ spc = "start"

\* Lines 300-371 and 404-443: step one, the sizes and the choice of branch.
SaveBegin ==
    /\ spc = "start"
    /\ LET d      == optimized_data(dataset, optimization_level)
           size   == get_data_size(dataset_doc(d))
           single == \/ ~should_chunk(enable_chunking, size,
                                      max_chunk_size, d)
                     \/ Len(d) <= 1
       IN  /\ data' = d
           /\ total_size' = size
           /\ mode' = IF single THEN "single"
                      ELSE IF all_features(d, 1) = <<>> THEN "fallback"
                      ELSE "slicing"
           /\ target_chunks' =
                  IF single THEN 0
                  ELSE target_chunks_for(size, max_chunk_size)
           /\ spc' = IF single THEN "single_file" ELSE "chunks"
    /\ UNCHANGED <<dataset, optimization_level, enable_chunking,
                   max_chunk_size, pos, chunks, chunk_files, disk, config,
                   file_info, failures>>
    /\ UNCHANGED <<dedupVars, pipelineVars>>

\* Line 377 succeeds.
WriteSingleFile ==
    /\ spc = "single_file"
    /\ disk' = Put(disk, single_filename, <<dataset_doc(data)>>)
    /\ spc' = "single_config"
    /\ UNCHANGED <<dataset, optimization_level, enable_chunking,
                   max_chunk_size, data, total_size, target_chunks, mode,
                   pos, chunks, chunk_files, config, file_info, failures>>
    /\ UNCHANGED <<dedupVars, pipelineVars>>

\* Line 377 raises: lines 396-398 return [].
WriteSingleFileFails(cut) ==
    /\ spc = "single_file"
    /\ failures < MaxFailures
    /\ failures' = failures + 1
    /\ disk' = AfterFailedWrite(single_filename, cut)
    /\ file_info' = <<>>
    /\ spc' = "done"
    /\ UNCHANGED <<dataset, optimization_level, enable_chunking,
                   max_chunk_size, data, total_size, target_chunks, mode,
                   pos, chunks, chunk_files, config>>
    /\ UNCHANGED <<dedupVars, pipelineVars>>

\* Lines 381-394 succeed.
WriteSingleConfig ==
    /\ spc = "single_config"
    /\ config' = [written |-> "complete",
                  data |-> [NoManifest EXCEPT !.data_type = "single",
                                              !.single_file = single_filename]]
    /\ file_info' = <<[file |-> single_filename, size |-> total_size]>>
    /\ spc' = "done"
    /\ UNCHANGED <<dataset, optimization_level, enable_chunking,
                   max_chunk_size, data, total_size, target_chunks, mode,
                   pos, chunks, chunk_files, disk, failures>>
    /\ UNCHANGED <<dedupVars, pipelineVars>>

\* Lines 391-392 raise: lines 396-398 return [].
WriteSingleConfigFails(cut) ==
    /\ spc = "single_config"
    /\ failures < MaxFailures
    /\ failures' = failures + 1
    /\ config' = IF cut THEN [written |-> "partial", data |-> NoManifest]
                 ELSE config
    /\ file_info' = <<>>
    /\ spc' = "done"
    /\ UNCHANGED <<dataset, optimization_level, enable_chunking,
                   max_chunk_size, data, total_size, target_chunks, mode,
                   pos, chunks, chunk_files, disk>>
    /\ UNCHANGED <<dedupVars, pipelineVars>>

\* Line 485 and line 447.
features_per_chunk == per_chunk(Len(all_features(data, 1)), target_chunks)

tracks_per_chunk == per_chunk(Len(data), target_chunks)

\* Lines 489-536: the chunk built by the iteration at position pos.
sliced_chunk ==
    chunk_data(regroup(Slice(all_features(data, 1), pos, features_per_chunk),
                       1, <<>>),
               Len(chunks))

\* A chunk that takes every track of the dataset.
fallback_chunk_of_all == chunk_data(data, Len(chunks))

\* Lines 450-463: the chunk built by the iteration at position pos.
fallback_chunk ==
    chunk_data(Slice(data, pos, tracks_per_chunk), Len(chunks))

\* The end of an iteration of a chunk loop of `count` items taken `step` at
\* a time, and, after the last one, the way to the second pass (line 564);
\* with nothing listed the second pass and the manifest are skipped and
\* line 599 returns.
EndOfIteration(step, count, listed, files) ==
    IF pos + step < count
    THEN pos' = pos + step /\ spc' = spc /\ file_info' = file_info
    ELSE /\ pos' = 0
         /\ spc' = IF listed = <<>> THEN "done" ELSE "rewrite"
         /\ file_info' = IF listed = <<>> THEN files ELSE file_info

\* Lines 488-558, save_data_file of line 542 succeeding.
WriteChunk ==
    /\ spc = "chunks"
    /\ mode = "slicing"
    /\ LET name == chunk_filename(Len(chunks) + 1)
           doc  == sliced_chunk
           info == [file |-> name, size |-> get_data_size(doc),
                    track_types |-> track_types(doc.tracks),
                    points |-> layer_count(doc.tracks, "points", 1),
                    lines |-> layer_count(doc.tracks, "lines", 1)]
       IN  /\ disk' = Put(disk, name, <<doc>>)
           /\ chunks' = Append(chunks, name)
           /\ chunk_files' = Append(chunk_files, info)
           /\ EndOfIteration(features_per_chunk, Len(all_features(data, 1)),
                             Append(chunks, name), Append(chunk_files, info))
    /\ UNCHANGED <<dataset, optimization_level, enable_chunking,
                   max_chunk_size, data, total_size, target_chunks, mode,
                   config, failures>>
    /\ UNCHANGED <<dedupVars, pipelineVars>>

\* Lines 488-542 and 560-561, save_data_file of line 542 raising.
WriteChunkFails(cut) ==
    /\ spc = "chunks"
    /\ mode = "slicing"
    /\ failures < MaxFailures
    /\ failures' = failures + 1
    /\ disk' = AfterFailedWrite(chunk_filename(Len(chunks) + 1), cut)
    /\ EndOfIteration(features_per_chunk, Len(all_features(data, 1)),
                      chunks, chunk_files)
    /\ UNCHANGED <<dataset, optimization_level, enable_chunking,
                   max_chunk_size, data, total_size, target_chunks, mode,
                   chunks, chunk_files, config>>
    /\ UNCHANGED <<dedupVars, pipelineVars>>

\* Lines 449-478, save_data_file of line 469 succeeding.
WriteFallbackChunk ==
    /\ spc = "chunks"
    /\ mode = "fallback"
    /\ LET name == chunk_filename(Len(chunks) + 1)
           doc  == fallback_chunk
           info == [file |-> name, size |-> get_data_size(doc),
                    track_types |-> track_types(doc.tracks)]
       IN  /\ disk' = Put(disk, name, <<doc>>)
           /\ chunks' = Append(chunks, name)
           /\ chunk_files' = Append(chunk_files, info)
           /\ EndOfIteration(tracks_per_chunk, Len(data),
                             Append(chunks, name), Append(chunk_files, info))
    /\ UNCHANGED <<dataset, optimization_level, enable_chunking,
                   max_chunk_size, data, total_size, target_chunks, mode,
                   config, failures>>
    /\ UNCHANGED <<dedupVars, pipelineVars>>

\* Lines 449-469 and 480-481, save_data_file of line 469 raising.
WriteFallbackChunkFails(cut) ==
    /\ spc = "chunks"
    /\ mode = "fallback"
    /\ failures < MaxFailures
    /\ failures' = failures + 1
    /\ disk' = AfterFailedWrite(chunk_filename(Len(chunks) + 1), cut)
    /\ EndOfIteration(tracks_per_chunk, Len(data), chunks, chunk_files)
    /\ UNCHANGED <<dataset, optimization_level, enable_chunking,
                   max_chunk_size, data, total_size, target_chunks, mode,
                   chunks, chunk_files, config>>
    /\ UNCHANGED <<dedupVars, pipelineVars>>

\* The end of an iteration of the second pass, and the way to line 581.
EndOfRewrite ==
    IF pos + 1 < Len(chunks)
    THEN pos' = pos + 1 /\ spc' = spc
    ELSE pos' = 0 /\ spc' = "manifest"

\* Lines 564-575 succeed: the chunk is read, total_chunks set, and the
\* chunk written again.
RewriteChunk ==
    /\ spc = "rewrite"
    /\ disk[chunks[pos + 1]] # <<>>
    /\ LET name == chunks[pos + 1]
           doc  == disk[name][1]
       IN  disk' = Put(disk, name,
                       <<[doc EXCEPT !.chunk_info[1].total_chunks =
                                         <<Len(chunks)>>]>>)
    /\ EndOfRewrite
    /\ UNCHANGED <<dataset, optimization_level, enable_chunking,
                   max_chunk_size, data, total_size, target_chunks, mode,
                   chunks, chunk_files, config, file_info, failures>>
    /\ UNCHANGED <<dedupVars, pipelineVars>>

\* Lines 564-578 with the read or the write raising: the warning of line 578
\* and the next chunk.  A read that fails leaves the file as it was; so does
\* a write that cannot open it; a write cut short leaves it cut short.
RewriteChunkFails(cut) ==
    /\ spc = "rewrite"
    /\ failures < MaxFailures
    /\ failures' = failures + 1
    /\ disk' = AfterFailedWrite(chunks[pos + 1], cut)
    /\ EndOfRewrite
    /\ UNCHANGED <<dataset, optimization_level, enable_chunking,
                   max_chunk_size, data, total_size, target_chunks, mode,
                   chunks, chunk_files, config, file_info>>
    /\ UNCHANGED <<dedupVars, pipelineVars>>

\* Lines 581-599 succeed.
WriteManifest ==
    /\ spc = "manifest"
    /\ config' = [written |-> "complete",
                  data |-> [NoManifest EXCEPT !.data_type = "chunked",
                                              !.chunks = chunks,
                                              !.total_chunks = Len(chunks)]]
    /\ file_info' = chunk_files
    /\ spc' = "done"
    /\ UNCHANGED <<dataset, optimization_level, enable_chunking,
                   max_chunk_size, data, total_size, target_chunks, mode,
                   pos, chunks, chunk_files, disk, failures>>
    /\ UNCHANGED <<dedupVars, pipelineVars>>

\* Lines 594-595 raise: nothing catches it, the call ends in the exception.
WriteManifestFails(cut) ==
    /\ spc = "manifest"
    /\ failures < MaxFailures
    /\ failures' = failures + 1
    /\ config' = IF cut THEN [written |-> "partial", data |-> NoManifest]
                 ELSE config
    /\ spc' = "raised"
    /\ UNCHANGED <<dataset, optimization_level, enable_chunking,
                   max_chunk_size, data, total_size, target_chunks, mode,
                   pos, chunks, chunk_files, disk, file_info>>
    /\ UNCHANGED <<dedupVars, pipelineVars>>

NextSave ==
    \/ SaveBegin
    \/ WriteSingleFile
    \/ \E cut \in BOOLEAN : WriteSingleFileFails(cut)
    \/ WriteSingleConfig
    \/ \E cut \in BOOLEAN : WriteSingleConfigFails(cut)
    \/ WriteChunk
    \/ \E cut \in BOOLEAN : WriteChunkFails(cut)
    \/ WriteFallbackChunk
    \/ \E cut \in BOOLEAN : WriteFallbackChunkFails(cut)
    \/ RewriteChunk
    \/ \E cut \in BOOLEAN : RewriteChunkFails(cut)
    \/ WriteManifest
    \/ \E cut \in BOOLEAN : WriteManifestFails(cut)

SpecSave == InitSave /\ [][NextSave]_vars

----------------------------------------------------------------------------
(* Properties of save_to_data_with_size_limit                               *)

\* The features of one layer of a track.
Layer(track, layer) == IF layer = "points" THEN track.points ELSE track.lines

Layers == {"points", "lines"}

\* The features a document holds for a track type and a layer.
doc_features(doc, type, layer) ==
    LET at == {k \in 1..Len(doc.tracks) : doc.tracks[k].type = type}
    IN  IF at = {} THEN <<>>
        ELSE Layer(doc.tracks[CHOOSE k \in at : TRUE], layer)

\* The documents read back from the files of the names from position k on;
\* a file that is missing or cut short gives none.
RECURSIVE read_files(_, _)
read_files(names, k) ==
    IF k > Len(names) THEN <<>>
    ELSE (IF names[k] \in DOMAIN disk THEN disk[names[k]] ELSE <<>>)
         \o read_files(names, k + 1)

\* The documents of the written artifacts: the single file, or the chunks.
written_docs ==
    IF mode = "single" THEN read_files(<<single_filename>>, 1)
    ELSE read_files(chunks, 1)

RECURSIVE features_of(_, _, _, _)
features_of(docs, type, layer, k) ==
    IF k > Len(docs) THEN <<>>
    ELSE doc_features(docs[k], type, layer)
         \o features_of(docs, type, layer, k + 1)

\* The features found in the written artifacts for a track type and layer.
written_features(type, layer) == features_of(written_docs, type, layer, 1)

\* Whether a is b with some elements left out.
RECURSIVE IsSubsequence(_, _)
IsSubsequence(a, b) ==
    IF a = <<>> THEN TRUE
    ELSE IF b = <<>> THEN FALSE
    ELSE IF a[1] = b[1] THEN IsSubsequence(Tail(a), Tail(b))
    ELSE IsSubsequence(a, Tail(b))

\* The call has ended, by a return or by an exception.
Ended == spc \in {"done", "raised"}

\* The chunked branch was taken.
Chunked == mode \in {"slicing", "fallback"}

\* data_config.json holds a chunked manifest.
ChunkedManifest ==
    config.written = "complete" /\ config.data.data_type = "chunked"

\* C5 as stated: when the call has returned, the features found in the
\* written artifacts are, for every track type and layer, exactly the
\* features of the dataset passed in.
C5_WrittenFeaturesAreTheDatasets ==
    spc = "done" =>
        \A k \in 1..Len(dataset), layer \in Layers :
            written_features(dataset[k].type, layer) = Layer(dataset[k], layer)

\* C5 amended: when the call has ended, the features found in the written
\* artifacts are, for every track type and layer, features of the dataset as
\* step one optimized it, in their order and none twice; when no write has
\* failed they are exactly those features.
C5_WrittenFeaturesAreTheOptimized ==
    Ended =>
        \A k \in 1..Len(dataset), layer \in Layers :
            LET want == Layer(optimized_data(dataset, optimization_level)[k],
                              layer)
                got  == written_features(dataset[k].type, layer)
            IN  /\ IsSubsequence(got, want)
                /\ (failures = 0 => got = want)

\* C5 witness: a medium run without a failure that dropped a line and wrote
\* two chunks or more, one of them holding features of two track types.
C5_Witness ==
    /\ spc = "done"
    /\ failures = 0
    /\ mode = "slicing"
    /\ optimization_level = "medium"
    /\ Len(chunks) >= 2
    /\ \E k \in 1..Len(dataset) : Len(data[k].lines) < Len(dataset[k].lines)
    /\ \E k \in 1..Len(chunks) : Len(disk[chunks[k]][1].tracks) >= 2
    /\ \A k \in 1..Len(dataset), layer \in Layers :
           written_features(dataset[k].type, layer) = Layer(data[k], layer)

\* C6: in the feature-slicing branch every chunk written has a size, by
\* get_data_size, of at most max_chunk_size.
C6_ChunksWithinBudget ==
    mode = "slicing" =>
        \A k \in 1..Len(chunk_files) : chunk_files[k].size <= max_chunk_size

\* C7 as stated: a dataset whose size is within the budget ends as one
\* dataset artifact and a manifest of data_type "single", and the chunked
\* branch is taken only when the size exceeds the budget.
C7_SingleWhenWithinBudget ==
    /\ (spc = "done" /\ total_size <= max_chunk_size) =>
           /\ DOMAIN disk = {single_filename}
           /\ config.written = "complete"
           /\ config.data.data_type = "single"
    /\ Chunked => total_size > max_chunk_size

\* C7 amended: the single-file branch is taken exactly when chunking is
\* disabled or the dataset has at most one track type, whatever the size;
\* a single-file run in which no write fails ends with one dataset artifact,
\* the whole dataset, and a manifest of data_type "single".
C7_SingleWhenDisabledOrOneTrack ==
    /\ mode # "undecided" =>
           (mode = "single" <=> (~enable_chunking \/ Len(dataset) <= 1))
    /\ (spc = "done" /\ mode = "single" /\ failures = 0) =>
           /\ DOMAIN disk = {single_filename}
           /\ disk[single_filename] = <<dataset_doc(data)>>
           /\ config.written = "complete"
           /\ config.data.data_type = "single"
           /\ config.data.single_file = single_filename
           /\ Len(file_info) = 1

\* C7 witness: a dataset within the budget that was written as chunks.
C7_Witness ==
    /\ spc = "done"
    /\ total_size <= max_chunk_size
    /\ Chunked
    /\ ChunkedManifest
    /\ Len(chunks) >= 2

\* C8: every chunk filename listed in data_config.json names a file that
\* was completely written.
C8_ListedChunksComplete ==
    ChunkedManifest =>
        \A k \in 1..Len(config.data.chunks) :
            /\ config.data.chunks[k] \in DOMAIN disk
            /\ disk[config.data.chunks[k]] # <<>>

\* C9: when the call has returned in the chunked branch, every chunk file
\* listed in the manifest carries a total_chunks equal to the manifest's,
\* which is the number of chunk files listed; none has it unset.
C9_TotalChunksEverywhere ==
    (spc = "done" /\ ChunkedManifest) =>
        /\ config.data.total_chunks = Len(config.data.chunks)
        /\ \A k \in 1..Len(config.data.chunks) :
               LET file == disk[config.data.chunks[k]]
               IN  /\ file # <<>>
                   /\ file[1].chunk_info[1].total_chunks
                          = <<config.data.total_chunks>>

\* C10 as stated: the target chunk count is
\* max(min_chunks, min(max_chunks, ceil(total_size / max_chunk_size))).
C10_TargetIsCeiling ==
    Chunked =>
        target_chunks =
            Max(min_chunks,
                Min(max_chunks,
                    (total_size + max_chunk_size - 1) \div max_chunk_size))

\* C10 amended: the target chunk count is
\* max(min_chunks, min(max_chunks, floor(total_size / max_chunk_size) + 1)):
\* unless it is clamped, it is the one count n with
\* (n - 1) * max_chunk_size <= total_size < n * max_chunk_size.
C10_TargetIsFloorPlusOne ==
    Chunked =>
        /\ target_chunks >= min_chunks
        /\ target_chunks <= max_chunks
        /\ \/ target_chunks = min_chunks
           \/ (target_chunks - 1) * max_chunk_size <= total_size
        /\ \/ target_chunks = max_chunks
           \/ total_size < target_chunks * max_chunk_size

\* C10 witness: a size that is twice the budget or more, an exact multiple
\* of it, with a target below max_chunks.
C10_Witness ==
    /\ Chunked
    /\ total_size % max_chunk_size = 0
    /\ total_size >= 2 * max_chunk_size
    /\ target_chunks = (total_size \div max_chunk_size) + 1
    /\ target_chunks < max_chunks

----------------------------------------------------------------------------
(* The partition by track type (lines 443-481)                              *)

\* The datasets of two track types or more none of which has a feature:
\* GPX files in which no track point was found.
EmptyDatasets ==
    {d \in Datasets : Len(d) >= min_chunks /\ all_features(d, 1) = <<>>}

\* A call with chunking enabled on a dataset without features.
InitFallback ==
    /\ InitSave
    /\ dataset \in EmptyDatasets
    /\ enable_chunking

NextFallback ==
    \/ SaveBegin
    \/ WriteFallbackChunk
    \/ \E cut \in BOOLEAN : WriteFallbackChunkFails(cut)
    \/ RewriteChunk
    \/ \E cut \in BOOLEAN : RewriteChunkFails(cut)
    \/ WriteManifest
    \/ \E cut \in BOOLEAN : WriteManifestFails(cut)

\* The call runs on one thread from its first line to its return: a step
\* that can be taken is taken.
SpecFallback ==
    InitFallback /\ [][NextFallback]_vars /\ WF_vars(NextFallback)

\* The chunk documents on disk, of the chunks listed, that hold the track
\* type.
chunks_holding(type) ==
    {k \in 1..Len(written_docs) :
        \E j \in 1..Len(written_docs[k].tracks) :
            written_docs[k].tracks[j].type = type}

\* The loop of line 449 is running.
InFallbackLoop == mode = "fallback" /\ spc = "chunks"

\* The loop of line 449 has ended.
FallbackLoopEnded == mode = "fallback" /\ spc # "chunks"

FallbackPartition ==
    mode = "fallback" =>
        /\ \A k \in 1..Len(data) :
               Cardinality(chunks_holding(data[k].type)) <= 1
        /\ (spc # "chunks" /\ failures = 0) =>
               /\ Len(chunks) >= 1
               /\ \A k \in 1..Len(data) :
                      Cardinality(chunks_holding(data[k].type)) = 1

----------------------------------------------------------------------------
(* The scenario of five files of 1000 points and a budget of one byte: a    *)
(* call of save_to_data_with_size_limit in which no write fails.            *)

\* Five files of per_file road points each, 600e-6 degrees apart, which the
\* deduplicator leaves alone; the other track types have no file (lines
\* 1076-1083).
LargeDataset(per_file) ==
    [k \in 1..Len(GPX_TYPES) |->
        [type   |-> GPX_TYPES[k],
         points |-> IF GPX_TYPES[k] = "road"
                    THEN [j \in 1..(5 * per_file) |-> PointFeature(600 * j, 8)]
                    ELSE <<>>,
         lines  |-> <<>>]]

\* The scenario, and the same at a tenth of its size.
LargeDatasets == { LargeDataset(per_file) : per_file \in {100, 1000} }

InitSaveLarge ==
    /\ DedupIdle
    /\ PipelineIdle
    /\ dataset \in LargeDatasets
    /\ optimization_level \in OptimizationLevels
    /\ enable_chunking = TRUE
    /\ max_chunk_size = 1
    /\ data = dataset
    /\ total_size = 0
    /\ target_chunks = 0
    /\ mode = "undecided"
    /\ pos = 0
    /\ chunks = <<>>
    /\ chunk_files = <<>>
    /\ disk = <<>>
    /\ config = [written |-> "no", data |-> NoManifest]
    /\ file_info = <<>>
    /\ failures = 0
    /\ spc = "start"

NextSaveLarge ==
    \/ SaveBegin
    \/ WriteChunk
    \/ RewriteChunk
    \/ WriteManifest

SpecSaveLarge == InitSaveLarge /\ [][NextSaveLarge]_vars

\* The number of features in the chunk files listed at the positions lo..hi.
RECURSIVE written_between(_, _)
written_between(lo, hi) ==
    IF lo > hi THEN 0
    ELSE IF lo = hi
    THEN layer_count(disk[chunks[lo]][1].tracks, "points", 1)
         + layer_count(disk[chunks[lo]][1].tracks, "lines", 1)
    ELSE written_between(lo, (lo + hi) \div 2)
         + written_between(((lo + hi) \div 2) + 1, hi)

written_count == written_between(1, Len(chunks))

\* The number of features of the dataset.
dataset_count ==
    layer_count(dataset, "points", 1) + layer_count(dataset, "lines", 1)

----------------------------------------------------------------------------
(* fix_dateline_crossing (lines 708-743) and the LineStrings of a track     *)
(* segment (lines 791-808).  A coordinate is <<lon, lat>> in 1e-5 degrees.  *)

\* The most track points in a segment.
MaxSegment == 3

\* The longitudes of the track points: near the date line on either side,
\* and between.
Longitudes == {-179 * 10^5, -170 * 10^5, 0, 170 * 10^5, 179 * 10^5}

\* The latitude of the track points.
Latitudes == {10 * 10^5}

RECURSIVE SeqsUpTo(_, _)
SeqsUpTo(S, n) ==
    IF n = 0 THEN { <<>> }
    ELSE SeqsUpTo(S, n - 1)
         \cup { Append(q, x) : q \in {r \in SeqsUpTo(S, n - 1) :
                                          Len(r) = n - 1}, x \in S }

\* The segments parsed: the track points of a trkseg, in file order.
Segments == SeqsUpTo(Longitudes \X Latitudes, MaxSegment)

\* Lines 719-738: the loop from position i on.
RECURSIVE split_from(_, _, _, _)
split_from(coords, i, segments, current_segment) ==
    IF i > Len(coords)
    THEN (IF Len(current_segment) > 1
          THEN Append(segments, current_segment) ELSE segments)
    ELSE IF Abs(coords[i][1] - current_segment[Len(current_segment)][1])
               > 180 * 10^5
    THEN split_from(coords, i + 1,
                    IF Len(current_segment) > 1
                    THEN Append(segments, current_segment) ELSE segments,
                    <<coords[i]>>)
    ELSE split_from(coords, i + 1, segments,
                    Append(current_segment, coords[i]))

\* Lines 708-743; line 743 returns the input when no piece was kept.
fix_dateline_crossing(coords) ==
    IF Len(coords) < 2 THEN <<coords>>
    ELSE LET segments == split_from(coords, 2, <<>>, <<coords[1]>>)
         IN  IF segments # <<>> THEN segments ELSE <<coords>>

\* Lines 791-808: the coordinates of the LineStrings of a segment.
segment_lines(coords) ==
    IF Len(coords) > 1
    THEN SelectSeq(fix_dateline_crossing(coords), LAMBDA seg : Len(seg) > 1)
    ELSE <<>>

InitGeo ==
    /\ DedupIdle
    /\ SaveIdle
    /\ GridIdle
    /\ RunIdle
    /\ PoolIdle
    /\ trkseg \in Segments
    /\ line_features = <<>>
    /\ gpc = "start"

\* Lines 791-808 for the segment read.
ParseSegment ==
    /\ gpc = "start"
    /\ line_features' = segment_lines(trkseg)
    /\ gpc' = "parsed"
    /\ UNCHANGED trkseg
    /\ UNCHANGED <<dedupVars, saveVars, gridVars, runVars, poolVars>>

NextGeo == ParseSegment

SpecGeo == InitGeo /\ [][NextGeo]_vars

\* Two consecutive coordinates of a line more than 180 degrees of longitude
\* apart.
HasJump(line) ==
    \E k \in 1..(Len(line) - 1) :
        Abs(line[k + 1][1] - line[k][1]) > 180 * 10^5

\* C13: no LineString produced from a track segment has two consecutive
\* coordinates whose longitudes differ by more than 180 degrees.
C13_NoJumpInLineString ==
    gpc = "parsed" =>
        \A k \in 1..Len(line_features) : ~HasJump(line_features[k])

\* Every piece of the segment after the split has fewer than two points:
\* every two consecutive track points are more than 180 degrees apart.
AllPiecesShort(coords) ==
    \A k \in 1..(Len(coords) - 1) :
        Abs(coords[k + 1][1] - coords[k][1]) > 180 * 10^5

\* C14: for a segment whose pieces after dateline splitting all have fewer
\* than two points, no LineString feature is emitted.
C14_ShortPiecesDiscarded ==
    (gpc = "parsed" /\ AllPiecesShort(trkseg)) => line_features = <<>>

----------------------------------------------------------------------------
(* calculate_grid_area_fast (lines 828-852).  A point is (lat, lon) in 1e-5 *)
(* degrees, as in the deduplicator; the result is the pair (number of grid  *)
(* cells, area in square metres).                                           *)

\* The longest list of points.
MaxGridPoints == 3

\* The cell sizes tried, metres; 50 is the default and the one the caller
\* passes (line 981).
GridSizes == {50, 100}

\* The points a list is drawn from: four on a meridian, 10 m, 16 m and 26 m
\* north of the first, one 10 m east of the second and one 111 m north of
\* the first.  At 50 m a cell boundary runs between the third and the
\* fourth, and, the width of a cell in degrees of longitude changing with the
\* latitude, another between the first and the second.
GridLattice ==
    { <<-4587000 + o[1], 17050040 + o[2]>> :
        o \in { <<0, 0>>, <<9, 0>>, <<14, 0>>, <<23, 0>>, <<9, 13>>,
                <<100, 0>> } }

\* A cell for every point, whatever the cell size.
area_grid_key_of_point(p, g) == <<p[1], p[2]>>

\* Lines 840-845: the cell of a point.  lat / (g / 111000) is
\* c * 111 / (100 * g) for a coordinate c in 1e-5 degrees; the longitude is
\* scaled by the cosine of the point's latitude; int() truncates toward zero.
area_grid_key(p, g) ==
    LET lat == p[1]
        lon == p[2]
        grid_lat == TruncDiv(lat * 111, 100 * g)
        east == MulScaled(Abs(lon) * 111, cos_radians(lat))
        grid_lon == IF lon >= 0 THEN east \div (100 * g)
                    ELSE -(east \div (100 * g))
    IN  <<grid_lat, grid_lon>>

\* A set that holds the cell of the last point only.
grid_cells_of_last(pts, k, g, grid_cells) ==
    IF pts = <<>> THEN {} ELSE {area_grid_key(pts[Len(pts)], g)}

\* Lines 836-847: grid_cells after the loop from position k on.
RECURSIVE grid_cells_from(_, _, _, _)
grid_cells_from(pts, k, g, grid_cells) ==
    IF k > Len(pts) THEN grid_cells
    ELSE grid_cells_from(pts, k + 1, g,
                         grid_cells \cup {area_grid_key(pts[k], g)})

\* A count of the points instead of the cells.
calculate_grid_area_by_points(pts, g) == <<Len(pts), Len(pts) * (g * g)>>

\* Lines 828-852.
calculate_grid_area_fast(pts, g) ==
    IF pts = <<>> THEN <<0, 0>>
    ELSE LET grid_cells == grid_cells_from(pts, 1, g, {})
         IN  <<Cardinality(grid_cells), Cardinality(grid_cells) * (g * g)>>

\* A caller computes the area of a list of points, then of the list with one
\* more point, and so on.
InitGrid ==
    /\ DedupIdle
    /\ SaveIdle
    /\ GeoIdle
    /\ RunIdle
    /\ PoolIdle
    /\ grid_points = <<>>
    /\ grid_size_meters \in GridSizes
    /\ grid_result = calculate_grid_area_fast(<<>>, grid_size_meters)
    /\ grid_before = grid_result

\* calculate_grid_area_fast(points + [p], grid_size_meters).
AppendGridPoint(p) ==
    /\ Len(grid_points) < MaxGridPoints
    /\ grid_points' = Append(grid_points, p)
    /\ grid_before' = grid_result
    /\ grid_result' = calculate_grid_area_fast(Append(grid_points, p),
                                               grid_size_meters)
    /\ UNCHANGED grid_size_meters
    /\ UNCHANGED <<dedupVars, saveVars, geoVars, runVars, poolVars>>

NextGrid == \E p \in GridLattice : AppendGridPoint(p)

SpecGrid == InitGrid /\ [][NextGrid]_vars

\* The cells the points of the list map to.
CellsOf(pts, g) == {area_grid_key(pts[k], g) : k \in 1..Len(pts)}

\* C15: the result is (n, n * g^2) for n the number of distinct cells the
\* points map to, and (0, 0) for the empty list.
C15_CellCountAndArea ==
    /\ grid_result[1] = Cardinality(CellsOf(grid_points, grid_size_meters))
    /\ grid_result[2] = grid_result[1] * grid_size_meters * grid_size_meters
    /\ grid_points = <<>> => grid_result = <<0, 0>>

\* C15 witness: three points in two cells.
C15_Witness ==
    /\ Len(grid_points) = 3
    /\ grid_result[1] = 2
    /\ grid_result[2] = 2 * grid_size_meters * grid_size_meters

\* Two points between 9.5 m and 10.5 m apart.
TenMetresApart(p, q) ==
    LET d == haversine(p[1], p[2], q[1], q[2]) IN d >= 950 /\ d <= 1050

\* Two points 10 m apart are the whole list, and the cells are of 50 m.
TwoPointsTenMetresApart ==
    /\ grid_size_meters = 50
    /\ Len(grid_points) = 2
    /\ TenMetresApart(grid_points[1], grid_points[2])

\* C16 as stated: two points 10 m apart map to one cell of 50 m: the result
\* is one cell and 2500 square metres.
C16_TenMetresApartOneCell ==
    TwoPointsTenMetresApart => grid_result = <<1, 2500>>

\* C16 amended: two points 10 m apart map to one cell of 50 m or to two
\* neighbouring cells; the result is (1, 2500) in the first case and
\* (2, 5000) in the second.
C16_TenMetresApartNeighbourCells ==
    TwoPointsTenMetresApart =>
        LET c1 == area_grid_key(grid_points[1], grid_size_meters)
            c2 == area_grid_key(grid_points[2], grid_size_meters)
        IN  /\ Abs(c1[1] - c2[1]) <= 1
            /\ Abs(c1[2] - c2[2]) <= 1
            /\ c1 = c2 => grid_result = <<1, 2500>>
            /\ c1 # c2 => grid_result = <<2, 5000>>

\* C16 witness: two points 10 m apart with a cell boundary between them.
C16_Witness ==
    /\ TwoPointsTenMetresApart
    /\ grid_result = <<2, 5000>>

\* C17: the result for a list with one more point is not less than the
\* result before, in cells and in area; it is the same when the point's cell
\* was occupied, and one cell (g^2 square metres) more when it was not.
C17_AppendIsMonotone ==
    grid_points # <<>> =>
        LET g      == grid_size_meters
            before == SubSeq(grid_points, 1, Len(grid_points) - 1)
            cell   == area_grid_key(grid_points[Len(grid_points)], g)
        IN  /\ grid_before = calculate_grid_area_fast(before, g)
            /\ grid_result[1] >= grid_before[1]
            /\ grid_result[2] >= grid_before[2]
            /\ cell \in CellsOf(before, g) => grid_result = grid_before
            /\ cell \notin CellsOf(before, g) =>
                   /\ grid_result[1] = grid_before[1] + 1
                   /\ grid_result[2] = grid_before[2] + g * g

\* C17 witness: a point was added in an occupied cell after one was added in
\* an unoccupied cell.
C17_Witness ==
    /\ Len(grid_points) = 3
    /\ grid_result = grid_before
    /\ grid_result[1] = 2

----------------------------------------------------------------------------
(* The run: process_road_data (lines 927-1008), generate_tracks_data (lines *)
(* 1010-1162) and __main__ (lines 1225-1329).  A GPX file is                *)
(* [readable, trksegs]: whether ET.parse succeeds on it, and the track      *)
(* points of its track segments as (lat, lon) in 1e-5 degrees.  The GPX     *)
(* directory exists (line 1231).                                            *)

\* The most files of GPX/road.
MaxRoadFiles == 2

\* The point of the lattice of the deduplicator at an offset.
LatticePoint(dlat, dlon) == <<-4587000 + dlat, 17050040 + dlon>>

\* The files: one cut short in the middle of its XML, one of two points 22 m
\* apart, one of two points more than 50 m from each other and from those,
\* and one without a track point.
GpxSamples ==
    { [readable |-> FALSE,
       trksegs  |-> << <<LatticePoint(0, 0), LatticePoint(64, 0)>> >>],
      [readable |-> TRUE,
       trksegs  |-> << <<LatticePoint(0, 0), LatticePoint(20, 0)>> >>],
      [readable |-> TRUE,
       trksegs  |-> << <<LatticePoint(64, 0), LatticePoint(0, 60)>> >>],
      [readable |-> TRUE, trksegs |-> <<>>] }

\* The files of GPX/road.
RoadFileLists == SeqsUpTo(GpxSamples, MaxRoadFiles)

\* The files of a directory of another track type: none, one that cannot be
\* read, or one of two points.
OtherFileLists ==
    { <<>>,
      << [readable |-> FALSE,
          trksegs  |-> << <<LatticePoint(0, 0), LatticePoint(64, 0)>> >>] >>,
      << [readable |-> TRUE,
          trksegs  |-> << <<LatticePoint(0, 0), LatticePoint(20, 0)>> >>] >> }

\* The lists of seqs, from position k on, one after the other.
RECURSIVE Flatten(_, _)
Flatten(seqs, k) ==
    IF k > Len(seqs) THEN <<>> ELSE seqs[k] \o Flatten(seqs, k + 1)

\* A reading that takes the track points of a file that cannot be parsed.
parse_gpx_file_lenient(gpx) == Flatten(gpx.trksegs, 1)

\* Lines 671-706: the (lat, lon) of every trkpt, or [] when parsing raises.
parse_gpx_file_fast(gpx) ==
    IF gpx.readable THEN Flatten(gpx.trksegs, 1) ELSE <<>>

\* Lines 1028-1038 and 1113-1123: the Point features of (lat, lon) points.
point_features(pts) ==
    [k \in 1..Len(pts) |-> PointFeature(pts[k][2], pts[k][1])]

\* Lines 774-777: the [lon, lat] of the points of a segment.
lon_lat(pts) == [k \in 1..Len(pts) |-> <<pts[k][2], pts[k][1]>>]

\* Lines 791-808: the LineString features of a segment.
line_features_of(pts) ==
    LET segments == segment_lines(lon_lat(pts))
    IN  [k \in 1..Len(segments) |-> LineFeature(segments[k])]

\* Lines 745-826: the features of a file, none when parsing raises.
parse_gpx_to_geojson(gpx) ==
    IF gpx.readable
    THEN [points |-> point_features(Flatten(gpx.trksegs, 1)),
          lines  |-> Flatten([k \in 1..Len(gpx.trksegs) |->
                                 line_features_of(gpx.trksegs[k])], 1)]
    ELSE [points |-> <<>>, lines |-> <<>>]

\* Lines 938-950: the metrics returned when GPX/road has no file.
NoRoadMetrics ==
    [total_files |-> 0, total_points |-> 0, unique_points |-> 0,
     grid_cells |-> 0, grid_size_meters |-> 50, explored_area_m2 |-> 0]

\* Lines 959-967: the points of the road files, in the order of the files.
road_points(road_files) ==
    Flatten([k \in 1..Len(road_files) |->
                parse_gpx_file_fast(road_files[k])], 1)

\* A process_road_data that returns no metrics when GPX/road has no file.
process_road_data_strict(road_files, all_points, unique, area) ==
    IF all_points = <<>>
    THEN [unique_points |-> <<>>, metrics |-> <<>>]
    ELSE [unique_points |-> unique,
          metrics |-> <<[total_files |-> Len(road_files),
                         total_points |-> Len(all_points),
                         unique_points |-> Len(unique),
                         grid_cells |-> area[1],
                         grid_size_meters |-> 50,
                         explored_area_m2 |-> area[2]]>>]

\* Lines 927-1008: the pair returned, the metrics as None or a dict, from
\* the files of GPX/road, their points (line 967), the points that
\* remove_duplicates_fast keeps of them (line 977) and their grid area
\* (line 981).
process_road_data(road_files, all_points, unique, area) ==
    IF road_files = <<>>
    THEN [unique_points |-> <<>>, metrics |-> <<NoRoadMetrics>>]
    ELSE IF all_points = <<>>
    THEN [unique_points |-> <<>>, metrics |-> <<>>]
    ELSE [unique_points |-> unique,
          metrics |-> <<[total_files |-> Len(road_files),
                         total_points |-> Len(all_points),
                         unique_points |-> Len(unique),
                         grid_cells |-> area[1],
                         grid_size_meters |-> 50,
                         explored_area_m2 |-> area[2]]>>]

\* Lines 1047-1048 and 1094-1095: the features of the files of a type.
parsed_files(type_files) ==
    [k \in 1..Len(type_files) |-> parse_gpx_to_geojson(type_files[k])]

\* Line 1096: the Point features of the files.
all_points_features(parsed) ==
    Flatten([k \in 1..Len(parsed) |-> parsed[k].points], 1)

\* Lines 1049 and 1097: the LineString features of the files.
all_lines_features(parsed) ==
    Flatten([k \in 1..Len(parsed) |-> parsed[k].lines], 1)

\* Lines 1100-1102: the (lat, lon) of the Point features.
all_raw_points(features) ==
    [k \in 1..Len(features) |->
        <<features[k].coords[2], features[k].coords[1]>>]

\* The coordinates of line features, one after the other.
line_coordinates(lines) ==
    Flatten([k \in 1..Len(lines) |-> lines[k].coords], 1)

\* Lines 1023-1068: the road track built from the points given, and what it
\* adds to all_coordinates.
road_track(unique, parsed) ==
    [type   |-> "road",
     points |-> point_features(unique),
     lines  |-> all_lines_features(parsed),
     all_coordinates |-> lon_lat(unique)]

\* Lines 1070-1147: the track of another type from the points that
\* remove_duplicates_fast keeps (line 1107), and what it adds to
\* all_coordinates.
other_track(track_type, unique_raw_points, parsed) ==
    [type   |-> track_type,
     points |-> point_features(unique_raw_points),
     lines  |-> all_lines_features(parsed),
     all_coordinates |-> lon_lat(unique_raw_points)
                         \o line_coordinates(all_lines_features(parsed))]

\* Lines 1019-1147: the tracks in the order of GPX_TYPES, each with what it
\* adds to all_coordinates.
built_tracks(unique, parsed) ==
    [k \in 1..Len(GPX_TYPES) |->
        IF GPX_TYPES[k] = "road"
        THEN road_track(unique[GPX_TYPES[k]], parsed[GPX_TYPES[k]])
        ELSE other_track(GPX_TYPES[k], unique[GPX_TYPES[k]],
                         parsed[GPX_TYPES[k]])]

\* min() and max() of a non-empty set of numbers.
SetMin(S) == CHOOSE x \in S : \A y \in S : x <= y

SetMax(S) == CHOOSE x \in S : \A y \in S : x >= y

\* Lines 1150-1159: None, or the box around all_coordinates.
bounds_of(all_coordinates) ==
    IF all_coordinates = <<>> THEN <<>>
    ELSE LET lons == {all_coordinates[k][1] : k \in 1..Len(all_coordinates)}
             lats == {all_coordinates[k][2] : k \in 1..Len(all_coordinates)}
         IN  <<[min_lng |-> SetMin(lons), max_lng |-> SetMax(lons),
                min_lat |-> SetMin(lats), max_lat |-> SetMax(lats)]>>

\* Lines 1010-1162: the pair returned, from the tracks built.
generate_tracks_data(built) ==
    [tracks_data |->
         [k \in 1..Len(built) |->
             [type |-> built[k].type, points |-> built[k].points,
              lines |-> built[k].lines]],
     bounds |->
         bounds_of(Flatten([k \in 1..Len(built) |->
                               built[k].all_coordinates], 1))]

InitRun ==
    /\ DedupIdle
    /\ SaveIdle
    /\ GeoIdle
    /\ GridIdle
    /\ PoolIdle
    /\ gpx_files \in
           { [t \in Range(GPX_TYPES) |->
                 IF t = "road" THEN road_files ELSE others[t]] :
               road_files \in RoadFileLists,
               others \in [Range(GPX_TYPES) \ {"road"} -> OtherFileLists] }
    /\ road_unique_points = <<>>
    /\ metrics = <<>>
    /\ tracks_data = <<>>
    /\ bounds = <<>>
    /\ exit_status = <<>>
    /\ rpc = "start"

\* Lines 1240-1244: process_road_data, and exit(1) when it returns no
\* metrics.
RunProcessRoad ==
    /\ rpc = "start"
    /\ \E all_points \in {road_points(gpx_files["road"])} :
       \E unique \in {remove_duplicates_fast(all_points, 50)} :
       \E area \in {calculate_grid_area_fast(unique, 50)} :
       \E r \in {process_road_data(gpx_files["road"], all_points, unique,
                                   area)} :
           /\ road_unique_points' = r.unique_points
           /\ metrics' = r.metrics
           /\ rpc' = IF r.metrics = <<>> THEN "aborted_road" ELSE "road_done"
           /\ exit_status' = IF r.metrics = <<>> THEN <<1>> ELSE exit_status
    /\ UNCHANGED <<gpx_files, tracks_data, bounds>>
    /\ UNCHANGED <<dedupVars, saveVars, geoVars, gridVars, poolVars>>

\* Line 1248: generate_tracks_data(road_unique_points).
RunGenerateTracks ==
    /\ rpc = "road_done"
    /\ \E parsed \in {[t \in Range(GPX_TYPES) |->
                          parsed_files(gpx_files[t])]} :
       \E raw \in {[t \in Range(GPX_TYPES) |->
                       all_raw_points(all_points_features(parsed[t]))]} :
       \E unique \in {[t \in Range(GPX_TYPES) |->
                          IF t = "road" THEN road_unique_points
                          ELSE remove_duplicates_fast(raw[t], 50)]} :
       \E r \in {generate_tracks_data(built_tracks(unique, parsed))} :
           /\ tracks_data' = r.tracks_data
           /\ bounds' = r.bounds
    /\ rpc' = "tracks_done"
    /\ UNCHANGED <<gpx_files, road_unique_points, metrics, exit_status>>
    /\ UNCHANGED <<dedupVars, saveVars, geoVars, gridVars, poolVars>>

\* Lines 1263-1265: metrics.json is written.
RunSaveMetrics ==
    /\ rpc = "tracks_done"
    /\ rpc' = "metrics_saved"
    /\ UNCHANGED <<gpx_files, road_unique_points, metrics, tracks_data,
                   bounds, exit_status>>
    /\ UNCHANGED <<dedupVars, saveVars, geoVars, gridVars, poolVars>>

\* Lines 1266-1268: metrics.json cannot be written, exit(1).
RunSaveMetricsFails ==
    /\ rpc = "tracks_done"
    /\ rpc' = "aborted_metrics"
    /\ exit_status' = <<1>>
    /\ UNCHANGED <<gpx_files, road_unique_points, metrics, tracks_data,
                   bounds>>
    /\ UNCHANGED <<dedupVars, saveVars, geoVars, gridVars, poolVars>>

\* Lines 1274-1325: save_to_data_with_size_limit returns the files written,
\* and the run ends.
RunSaveTracks ==
    /\ rpc = "metrics_saved"
    /\ rpc' = "finished"
    /\ exit_status' = <<0>>
    /\ UNCHANGED <<gpx_files, road_unique_points, metrics, tracks_data,
                   bounds>>
    /\ UNCHANGED <<dedupVars, saveVars, geoVars, gridVars, poolVars>>

\* Lines 1274-1283 and 1327-1329: save_to_data_with_size_limit returns no
\* file, exit(1).
RunSaveTracksFails ==
    /\ rpc = "metrics_saved"
    /\ rpc' = "save_failed"
    /\ exit_status' = <<1>>
    /\ UNCHANGED <<gpx_files, road_unique_points, metrics, tracks_data,
                   bounds>>
    /\ UNCHANGED <<dedupVars, saveVars, geoVars, gridVars, poolVars>>

\* Line 1274: save_to_data_with_size_limit raises (the manifest of the
\* chunks cannot be written), and the run ends with a traceback.
RunSaveTracksRaises ==
    /\ rpc = "metrics_saved"
    /\ rpc' = "raised"
    /\ exit_status' = <<1>>
    /\ UNCHANGED <<gpx_files, road_unique_points, metrics, tracks_data,
                   bounds>>
    /\ UNCHANGED <<dedupVars, saveVars, geoVars, gridVars, poolVars>>

NextRun ==
    \/ RunProcessRoad
    \/ RunGenerateTracks
    \/ RunSaveMetrics
    \/ RunSaveMetricsFails
    \/ RunSaveTracks
    \/ RunSaveTracksFails
    \/ RunSaveTracksRaises

SpecRun == InitRun /\ [][NextRun]_vars

----------------------------------------------------------------------------
(* Properties of the run                                                    *)

\* The stages after process_road_data returned metrics.
AfterRoad ==
    {"road_done", "tracks_done", "metrics_saved", "aborted_metrics",
     "finished", "save_failed", "raised"}

\* The stages after generate_tracks_data returned.
AfterTracks ==
    {"tracks_done", "metrics_saved", "aborted_metrics", "finished",
     "save_failed", "raised"}

\* The track points of the files of a list that can be read.
readable_points(type_files) ==
    Flatten([k \in 1..Len(type_files) |->
                IF type_files[k].readable
                THEN Flatten(type_files[k].trksegs, 1) ELSE <<>>], 1)

\* C18 as stated: when GPX/road has no file, the run is aborted with a
\* failure status and goes on neither to generate_tracks_data nor to the
\* writing of the files.
C18_NoRoadFilesAborts ==
    (rpc # "start" /\ gpx_files["road"] = <<>>) =>
        /\ rpc = "aborted_road"
        /\ exit_status = <<1>>

\* C18 as the code has it: when GPX/road has no file, process_road_data
\* returns metrics that are all zero and no point, and the run goes on to
\* generate_tracks_data and to the writing of the files; the run is aborted
\* after process_road_data, with status 1, exactly when GPX/road has files
\* and none of them yields a point.
C18_NoRoadFilesContinues ==
    rpc # "start" =>
        /\ gpx_files["road"] = <<>> =>
               /\ rpc \in AfterRoad
               /\ metrics = <<NoRoadMetrics>>
               /\ road_unique_points = <<>>
               /\ rpc \in AfterTracks =>
                      /\ tracks_data[1].type = "road"
                      /\ tracks_data[1].points = <<>>
                      /\ tracks_data[1].lines = <<>>
        /\ rpc = "aborted_road" =>
               /\ gpx_files["road"] # <<>>
               /\ exit_status = <<1>>
               /\ metrics = <<>>

\* C18 witness: a run without a road file ended with status 0 after the
\* files were written.
C18_Witness ==
    /\ gpx_files["road"] = <<>>
    /\ rpc = "finished"
    /\ exit_status = <<0>>
    /\ metrics = <<NoRoadMetrics>>

\* Whether a file of the list cannot be parsed.
HasUnreadable(type_files) ==
    \E k \in 1..Len(type_files) : ~type_files[k].readable

\* C19 as stated: whenever a file of the input cannot be parsed, the run
\* is not aborted for it and goes on with the points of the other files.
C19_ParseFailureNeverAborts ==
    (rpc # "start" /\ \E t \in Range(GPX_TYPES) : HasUnreadable(gpx_files[t]))
        => rpc # "aborted_road"

\* C19 as the code has it: a file that cannot be parsed contributes no
\* point, and the points of the other files are counted and deduplicated as
\* if it were not there; the run goes on, except that it is aborted with
\* status 1 when no file of GPX/road that can be read has a point.
C19_ParseFailureIsolated ==
    /\ (rpc # "start" /\ HasUnreadable(gpx_files["road"])) =>
           IF readable_points(gpx_files["road"]) = <<>>
           THEN rpc = "aborted_road" /\ exit_status = <<1>>
           ELSE /\ rpc \in AfterRoad
                /\ metrics[1].total_files = Len(gpx_files["road"])
                /\ metrics[1].total_points =
                       Len(readable_points(gpx_files["road"]))
                /\ road_unique_points =
                       remove_duplicates_fast(
                           readable_points(gpx_files["road"]), 50)
    /\ rpc \in AfterTracks =>
           \A k \in 2..Len(GPX_TYPES) :
               HasUnreadable(gpx_files[GPX_TYPES[k]]) =>
                   tracks_data[k].points =
                       point_features(remove_duplicates_fast(
                           readable_points(gpx_files[GPX_TYPES[k]]), 50))

\* C19 witness: GPX/road has a file that cannot be parsed and one that can,
\* and the run ended with status 0 with the points of the second.
C19_Witness ==
    /\ Len(gpx_files["road"]) = 2
    /\ ~gpx_files["road"][1].readable
    /\ gpx_files["road"][2].readable
    /\ rpc = "finished"
    /\ exit_status = <<0>>
    /\ metrics[1].total_points = 2
    /\ metrics[1].total_files = 2

\* Whether [lon, lat] lies in the box.
InBounds(c, box) ==
    /\ box.min_lng <= c[1]
    /\ c[1] <= box.max_lng
    /\ box.min_lat <= c[2]
    /\ c[2] <= box.max_lat

\* C20: once generate_tracks_data has returned, every Point and every
\* vertex of every LineString of every track lies in the bounds returned.
C20_BoundsContainEveryCoordinate ==
    rpc \in AfterTracks =>
        \A k \in 1..Len(tracks_data) :
            /\ \A j \in 1..Len(tracks_data[k].points) :
                   /\ bounds # <<>>
                   /\ InBounds(tracks_data[k].points[j].coords, bounds[1])
            /\ \A j \in 1..Len(tracks_data[k].lines) :
                   \A v \in 1..Len(tracks_data[k].lines[j].coords) :
                       /\ bounds # <<>>
                       /\ InBounds(tracks_data[k].lines[j].coords[v],
                                   bounds[1])

----------------------------------------------------------------------------
(* __main__ from line 1274 on: the call of save_to_data_with_size_limit on  *)
(* the tracks, step by step, and what the run does with its outcome.        *)

\* The most track types of a dataset handed over by the run.
MaxRunTracks == 2

\* metrics.json is written (line 1265) and the tracks are about to be saved.
InitMain ==
    /\ DedupIdle
    /\ GeoIdle
    /\ GridIdle
    /\ PoolIdle
    /\ gpx_files = <<>>
    /\ road_unique_points = <<>>
    /\ metrics = <<NoRoadMetrics>>
    /\ bounds = <<>>
    /\ exit_status = <<>>
    /\ rpc = "metrics_saved"
    /\ dataset \in {d \in Datasets : Len(d) <= MaxRunTracks}
    /\ tracks_data = dataset
    /\ optimization_level \in OptimizationLevels
    /\ enable_chunking \in BOOLEAN
    /\ max_chunk_size \in Budgets
    /\ data = dataset
    /\ total_size = 0
    /\ target_chunks = 0
    /\ mode = "undecided"
    /\ pos = 0
    /\ chunks = <<>>
    /\ chunk_files = <<>>
    /\ disk = <<>>
    /\ config = [written |-> "no", data |-> NoManifest]
    /\ file_info = <<>>
    /\ failures = 0
    /\ spc = "start"

\* Lines 1283-1325: file_info is not empty, the summary and the success
\* message of line 1317 are printed, and the script ends.
MainReportsSuccess ==
    /\ rpc = "metrics_saved"
    /\ spc = "done"
    /\ file_info # <<>>
    /\ rpc' = "finished"
    /\ exit_status' = <<0>>
    /\ UNCHANGED <<gpx_files, road_unique_points, metrics, tracks_data,
                   bounds>>
    /\ UNCHANGED <<dedupVars, saveVars, geoVars, gridVars, poolVars>>

\* A run that takes an empty file_info for files written.
MainOverlooksFailure ==
    /\ rpc = "metrics_saved"
    /\ spc = "done"
    /\ file_info = <<>>
    /\ rpc' = "finished"
    /\ exit_status' = <<0>>
    /\ UNCHANGED <<gpx_files, road_unique_points, metrics, tracks_data,
                   bounds>>
    /\ UNCHANGED <<dedupVars, saveVars, geoVars, gridVars, poolVars>>

\* Lines 1327-1329: file_info is empty, the failure message is printed, and
\* exit(1).
MainReportsFailure ==
    /\ rpc = "metrics_saved"
    /\ spc = "done"
    /\ file_info = <<>>
    /\ rpc' = "save_failed"
    /\ exit_status' = <<1>>
    /\ UNCHANGED <<gpx_files, road_unique_points, metrics, tracks_data,
                   bounds>>
    /\ UNCHANGED <<dedupVars, saveVars, geoVars, gridVars, poolVars>>

\* Line 1274: the call raised, and the interpreter ends with a traceback.
MainRaises ==
    /\ rpc = "metrics_saved"
    /\ spc = "raised"
    /\ rpc' = "raised"
    /\ exit_status' = <<1>>
    /\ UNCHANGED <<gpx_files, road_unique_points, metrics, tracks_data,
                   bounds>>
    /\ UNCHANGED <<dedupVars, saveVars, geoVars, gridVars, poolVars>>

NextMain ==
    \/ NextSave
    \/ MainReportsSuccess
    \/ MainReportsFailure
    \/ MainRaises

SpecMain == InitMain /\ [][NextMain]_vars

\* The run has ended.
RunEnded == exit_status # <<>>

\* The iterations of the first pass of the chunked branch (lines 449 and
\* 488): the chunks it tries to write.
chunk_iterations ==
    IF mode = "slicing"
    THEN (Len(all_features(data, 1)) + features_per_chunk - 1)
             \div features_per_chunk
    ELSE (Len(data) + tracks_per_chunk - 1) \div tracks_per_chunk

\* C21: when the write of the single file or of data_config.json fails, the
\* run ends with a failure status and without the success message; when
\* the write of one chunk among many fails, the run is not aborted: the
\* other chunks are written and listed, data_config.json is written, and
\* the run ends with the success message.
C21_WriteFailures ==
    RunEnded =>
        /\ (mode = "single" /\ failures > 0) =>
               /\ exit_status = <<1>>
               /\ rpc = "save_failed"
               /\ config.written # "complete"
        /\ (Chunked /\ config.written # "complete" /\ chunks # <<>>) =>
               /\ spc = "raised"
               /\ exit_status = <<1>>
               /\ rpc = "raised"
        /\ (/\ Chunked
            /\ spc = "done"
            /\ chunk_iterations > 1
            /\ Len(chunks) = chunk_iterations - 1) =>
               /\ config.written = "complete"
               /\ config.data.chunks = chunks
               /\ \A k \in 1..Len(chunks) : chunks[k] \in DOMAIN disk
               /\ rpc = "finished"
               /\ exit_status = <<0>>

\* C21 witness: of three chunks one could not be written, the other two are
\* listed in data_config.json, and the run ended with the success message.
C21_Witness ==
    /\ rpc = "finished"
    /\ mode = "slicing"
    /\ chunk_iterations = 3
    /\ Len(chunks) = 2
    /\ config.written = "complete"

----------------------------------------------------------------------------
(* The thread pool of process_road_data (lines 959-967): the main thread    *)
(* submits one parse_gpx_file_fast per file, the workers run them in any    *)
(* interleaving, and the main thread takes the results of the futures in    *)
(* the order of the dict future_to_file.  A future is [file, state, result, *)
(* completed]: completed is its rank among the futures that are done.       *)

\* The most files of GPX/road handed to the pool.
MaxPoolFiles == 3

\* Line 961: max_workers of the executor.
max_workers(files) == Min(Len(files), 4)

PoolFileLists == SeqsUpTo(GpxSamples, MaxPoolFiles) \ {<<>>}

\* The futures of a state.
FuturesIn(futures, states) ==
    {k \in 1..Len(futures) : futures[k].state \in states}

\* A main thread that takes the result of any future that is done, as
\* concurrent.futures.as_completed would hand them over.
collects_as_completed(futures, k) ==
    futures[k].state = "done"

\* Lines 965-966: the loop over future_to_file is at the future k, and
\* future.result() returns once it is done.
collects_next(futures, k) ==
    /\ futures[k].state = "done"
    /\ \A j \in 1..(k - 1) : futures[j].state = "collected"

InitPool ==
    /\ DedupIdle
    /\ SaveIdle
    /\ GeoIdle
    /\ GridIdle
    /\ gpx_files \in
           { [t \in Range(GPX_TYPES) |->
                 IF t = "road" THEN road_files ELSE <<>>] :
               road_files \in PoolFileLists }
    /\ road_unique_points = <<>>
    /\ metrics = <<>>
    /\ tracks_data = <<>>
    /\ bounds = <<>>
    /\ exit_status = <<>>
    /\ rpc = "submitting"
    /\ future_to_file = <<>>
    /\ gathered_points = <<>>

\* Lines 962-963: executor.submit for the next file.
PoolSubmit ==
    /\ rpc = "submitting"
    /\ future_to_file' =
           Append(future_to_file,
                  [file |-> gpx_files["road"][Len(future_to_file) + 1],
                   state |-> "pending", result |-> <<>>, completed |-> 0])
    /\ rpc' = IF Len(future_to_file) + 1 = Len(gpx_files["road"])
              THEN "collecting" ELSE rpc
    /\ UNCHANGED <<gpx_files, road_unique_points, metrics, tracks_data,
                   bounds, exit_status, gathered_points>>
    /\ UNCHANGED <<dedupVars, saveVars, geoVars, gridVars>>

\* A worker that is free takes the oldest future of the queue.
WorkerStart(k) ==
    /\ k \in 1..Len(future_to_file)
    /\ future_to_file[k].state = "pending"
    /\ \A j \in 1..(k - 1) : future_to_file[j].state # "pending"
    /\ Cardinality(FuturesIn(future_to_file, {"running"}))
           < max_workers(gpx_files["road"])
    /\ future_to_file' = [future_to_file EXCEPT ![k].state = "running"]
    /\ UNCHANGED <<runVars, gathered_points>>
    /\ UNCHANGED <<dedupVars, saveVars, geoVars, gridVars>>

\* parse_gpx_file_fast returns in a worker: the result is set on its future.
WorkerFinish(k) ==
    /\ k \in 1..Len(future_to_file)
    /\ future_to_file[k].state = "running"
    /\ future_to_file' =
           [future_to_file EXCEPT
               ![k].state = "done",
               ![k].result = parse_gpx_file_fast(future_to_file[k].file),
               ![k].completed =
                   1 + Cardinality(FuturesIn(future_to_file,
                                             {"done", "collected"}))]
    /\ UNCHANGED <<runVars, gathered_points>>
    /\ UNCHANGED <<dedupVars, saveVars, geoVars, gridVars>>

\* Lines 965-967: points = future.result(); all_points.extend(points).
MainCollect(k) ==
    /\ rpc = "collecting"
    /\ k \in 1..Len(future_to_file)
    /\ collects_next(future_to_file, k)
    /\ gathered_points' = gathered_points \o future_to_file[k].result
    /\ future_to_file' = [future_to_file EXCEPT ![k].state = "collected"]
    /\ UNCHANGED runVars
    /\ UNCHANGED <<dedupVars, saveVars, geoVars, gridVars>>

\* Lines 971-1008 and 1240-1244: the rest of process_road_data on
\* all_points, and exit(1) when it returns no metrics.
PoolFinish ==
    /\ rpc = "collecting"
    /\ \A k \in 1..Len(future_to_file) : future_to_file[k].state = "collected"
    /\ \E unique \in {remove_duplicates_fast(gathered_points, 50)} :
       \E area \in {calculate_grid_area_fast(unique, 50)} :
       \E r \in {process_road_data(gpx_files["road"], gathered_points,
                                   unique, area)} :
           /\ road_unique_points' = r.unique_points
           /\ metrics' = r.metrics
           /\ rpc' = IF r.metrics = <<>> THEN "aborted_road" ELSE "road_done"
           /\ exit_status' = IF r.metrics = <<>> THEN <<1>> ELSE exit_status
    /\ UNCHANGED <<gpx_files, tracks_data, bounds>>
    /\ UNCHANGED <<dedupVars, saveVars, geoVars, gridVars, poolVars>>

NextPool ==
    \/ PoolSubmit
    \/ \E k \in 1..MaxPoolFiles : WorkerStart(k)
    \/ \E k \in 1..MaxPoolFiles : WorkerFinish(k)
    \/ \E k \in 1..MaxPoolFiles : MainCollect(k)
    \/ PoolFinish

SpecPool == InitPool /\ [][NextPool]_vars

\* The results of the first n futures, one after the other.
results_upto(futures, n) ==
    Flatten([k \in 1..n |-> parse_gpx_file_fast(futures[k].file)], 1)

\* C22: in every interleaving of the workers, all_points is at every moment
\* the points of the files whose results the main thread has taken, in the
\* order of submission, and what process_road_data returns is what it
\* returns when the files are parsed one after the other.
C22_SameForEveryInterleaving ==
    /\ gathered_points =
           results_upto(future_to_file,
                        Cardinality(FuturesIn(future_to_file, {"collected"})))
    /\ \A k \in 1..Len(future_to_file) :
           /\ future_to_file[k].file = gpx_files["road"][k]
           /\ future_to_file[k].state \in {"done", "collected"} =>
                  future_to_file[k].result =
                      parse_gpx_file_fast(future_to_file[k].file)
    /\ rpc \in {"road_done", "aborted_road"} =>
           \E all_points \in {road_points(gpx_files["road"])} :
           \E unique \in {remove_duplicates_fast(all_points, 50)} :
           \E area \in {calculate_grid_area_fast(unique, 50)} :
           \E r \in {process_road_data(gpx_files["road"], all_points, unique,
                                       area)} :
               /\ gathered_points = all_points
               /\ road_unique_points = r.unique_points
               /\ metrics = r.metrics

\* C22 witness: of three files with different points the last was parsed
\* first and the first last, and process_road_data has returned.
C22_Witness ==
    /\ rpc = "road_done"
    /\ Len(future_to_file) = 3
    /\ future_to_file[3].completed = 1
    /\ future_to_file[1].completed = 3
    /\ future_to_file[1].result # <<>>
    /\ future_to_file[3].result # <<>>
    /\ future_to_file[1].result # future_to_file[3].result

----------------------------------------------------------------------------
(* The number of chunks: calls of save_to_data_with_size_limit on a feature *)
(* list that the target chunk count does not divide, with no write failing. *)

\* A road track of n points, 600e-6 degrees apart; the other track types
\* have no file (lines 1076-1083).
UnevenDataset(n) ==
    [k \in 1..Len(GPX_TYPES) |->
        [type   |-> GPX_TYPES[k],
         points |-> IF GPX_TYPES[k] = "road"
                    THEN [j \in 1..n |-> PointFeature(600 * j, 8)]
                    ELSE <<>>,
         lines  |-> <<>>]]

\* One point more than twice max_chunks, and a quarter more than that.
UnevenDatasets ==
    { UnevenDataset(n) : n \in {2 * max_chunks + 1, 2 * max_chunks + 50} }

InitSaveUneven ==
    /\ DedupIdle
    /\ PipelineIdle
    /\ dataset \in UnevenDatasets
    /\ optimization_level \in OptimizationLevels
    /\ enable_chunking = TRUE
    /\ max_chunk_size = 1
    /\ data = dataset
    /\ total_size = 0
    /\ target_chunks = 0
    /\ mode = "undecided"
    /\ pos = 0
    /\ chunks = <<>>
    /\ chunk_files = <<>>
    /\ disk = <<>>
    /\ config = [written |-> "no", data |-> NoManifest]
    /\ file_info = <<>>
    /\ failures = 0
    /\ spc = "start"

SpecSaveUneven == InitSaveUneven /\ [][NextSaveLarge]_vars

\* C23: in the chunked branch the chunks written are never more than
\* max_chunks and never more than target_chunks.
C23_ChunksWithinTarget ==
    Chunked =>
        /\ Len(chunks) <= max_chunks
        /\ Len(chunks) <= target_chunks

----------------------------------------------------------------------------
(* remove_duplicates (lines 904-925), the pairwise deduplicator             *)

\* Lines 911-918: one iteration of the loop over the points.
RECURSIVE remove_duplicates_from(_, _, _, _)
remove_duplicates_from(pts, i, kept, d) ==
    IF i > Len(pts) THEN kept
    ELSE remove_duplicates_from(
             pts, i + 1,
             IF \E k \in 1..Len(kept) : Within(pts[i], kept[k], d)
             THEN kept ELSE Append(kept, pts[i]),
             d)

\* Lines 904-925.
remove_duplicates(pts, d) == remove_duplicates_from(pts, 1, <<>>, d)

\* C24: what remove_duplicates_fast returned for the points and the
\* threshold is what remove_duplicates returns for them.
C24_FastIsPairwise ==
    dpc # "input" =>
        unique_points = remove_duplicates(points, min_distance)

----------------------------------------------------------------------------
(* The numbering of the chunks listed in data_config.json                   *)

\* C25: after any successes and failures of chunk writes, the filenames
\* listed in data_config.json are pairwise distinct, and the k-th of them,
\* counted from 0, is numbered k + 1 and names a chunk whose
\* chunk_info.chunk_id is k.
C25_ListedChunksNumbered ==
    ChunkedManifest =>
        /\ \A j, k \in 1..Len(config.data.chunks) :
               j # k => config.data.chunks[j] # config.data.chunks[k]
        /\ \A k \in 1..Len(config.data.chunks) :
               /\ config.data.chunks[k] = chunk_filename(k)
               /\ config.data.chunks[k] \in DOMAIN disk
               /\ disk[config.data.chunks[k]] # <<>>
               /\ disk[config.data.chunks[k]][1].chunk_info[1].chunk_id
                      = k - 1

=============================================================================
